---- MODULE Spec2Model ----
(***************************************************************************)
(* Blend evaluation and selection engine of the water blend optimizer      *)
(* (src/app3.py): weighted blend concentration, B9 dilution, escalation    *)
(* status, safety score, required dilution, combination enumeration,       *)
(* result sorting, source ranking, the greedy fill, the sludge estimate    *)
(* and the page: its session state and the runs of its script.             *)
(*                                                                         *)
(* Numbers.  The program computes in binary floating point (Python floats, *)
(* IEEE 754 doubles), and so does the model: a float is                    *)
(*     <<sign, mantissa, exponent>>                                        *)
(* for the double sign * mantissa * 2^exponent, where sign is 1 or -1 and  *)
(* the mantissa is an odd natural number below 2^53 written as the         *)
(* sequence of its digits in base 2^15, lowest digit first.  0.0 is        *)
(* <<1, <<>>, 0>>, 1.0 is <<1, <<1>>, 0>>, 0.7 is                          *)
(* <<1, <<13107, 26214, 19660, 89>>, -52>> and float('inf') is             *)
(* <<1, <<1>>, 1024>>.  Every operation rounds its exact result to the     *)
(* nearest double, ties to the even mantissa, as the hardware does, over   *)
(* the whole range of a double: a result of 2^1024 or more is an infinity, *)
(* a result below 2^-1022 is rounded to a multiple of 2^-1074 (a subnormal *)
(* or a zero), the zeros are signed, inf - inf, inf / inf and 0 * inf are  *)
(* nan (<<0, <<1>>, 1024>>), every comparison with nan is false and a      *)
(* division by zero raises ZeroDivisionError.  The volume field of the     *)
(* page has no upper bound and the functions take any float.               *)
(* A decimal literal of the source (0.7, 12.6, a cell of the reference     *)
(* table) is the double nearest to it, FDec(7, 10).                        *)
(* Python's None is <<0, <<>>, 0>> where a float is expected and the name  *)
(* "None" where an analyte name is expected.                               *)
(***************************************************************************)
EXTENDS Integers, Sequences, FiniteSets, TLC

VARIABLES
    reference,      \* the module-level table WATER_TYPE_CONCENTRATIONS
    call,           \* the function being called or the run of the page made
                    \* last, "idle" before and between calls
    args,           \* the arguments of that call, the inputs of that run
    result,         \* what the call returned, what the run shows
    session_state   \* st.session_state: water_entries, analysis_results
                    \* (<<>> for None, <<data>> for the dictionary stored)
                    \* and h2_target

vars == <<reference, call, args, result, session_state>>

----------------------------------------------------------------------------
(* Natural numbers of any size, for the mantissas of the doubles.          *)

\* the value of a set of one element; Only({e(v) : v \in {x}}) is e(x) with x
\* computed once
Only(S) == CHOOSE v \in S : TRUE

Min(a, b) == IF b < a THEN b ELSE a
Max(a, b) == IF b > a THEN b ELSE a

\* A natural number of any size is the sequence of its digits in base 2^15,
\* lowest digit first, without a zero as highest digit (0 is <<>>).
BASE == 32768
DIGIT_BITS == 15

\* 2^k for k in 0..15
Pow2(k) == <<1, 2, 4, 8, 16, 32, 64, 128, 256, 512, 1024, 2048, 4096, 8192,
             16384, 32768>>[k + 1]

Digit(a, i) == IF i >= 1 /\ i <= Len(a) THEN a[i] ELSE 0

\* a without the zeros above its highest digit
RECURSIVE NatTrimTo(_, _)
NatTrimTo(a, n) ==
    IF n > 0 /\ a[n] = 0 THEN NatTrimTo(a, n - 1) ELSE SubSeq(a, 1, n)

NatTrim(a) == Only({NatTrimTo(v, Len(v)) : v \in {a}})

\* the digits of an integer n >= 0
RECURSIVE NatOf(_)
NatOf(n) == IF n = 0 THEN <<>> ELSE <<n % BASE>> \o NatOf(n \div BASE)

\* the integer that the digits a denote, for a below 2^31
RECURSIVE NatIntFrom(_, _)
NatIntFrom(a, i) == IF i > Len(a) THEN 0 ELSE a[i] + BASE * NatIntFrom(a, i + 1)

NatInt(a) == Only({NatIntFrom(v, 1) : v \in {a}})

\* -1, 0, 1 as a < b, a = b, a > b, comparing the digits from i down
RECURSIVE NatCmpFrom(_, _, _)
NatCmpFrom(a, b, i) ==
    IF i = 0 THEN 0
    ELSE IF a[i] < b[i] THEN -1
    ELSE IF a[i] > b[i] THEN 1
    ELSE NatCmpFrom(a, b, i - 1)

NatCmp(a, b) ==
    Only({ IF Len(x) < Len(y) THEN -1
           ELSE IF Len(x) > Len(y) THEN 1
           ELSE NatCmpFrom(x, y, Len(x)) : x \in {a}, y \in {b} })

\* the digits of a + b from digit i on, after acc
RECURSIVE NatAddFrom(_, _, _, _, _)
NatAddFrom(a, b, i, carry, acc) ==
    IF i > Len(a) /\ i > Len(b)
    THEN (IF carry = 0 THEN acc ELSE Append(acc, carry))
    ELSE Only({ NatAddFrom(a, b, n, s \div BASE, next) :
                s \in {Digit(a, i) + Digit(b, i) + carry}, n \in {i + 1},
                next \in {Append(acc, (Digit(a, i) + Digit(b, i) + carry) % BASE)} })

NatAdd(a, b) == Only({NatAddFrom(x, y, 1, 0, <<>>) : x \in {a}, y \in {b}})

\* the digits of a - b (a >= b) from digit i on, after acc
RECURSIVE NatSubFrom(_, _, _, _, _)
NatSubFrom(a, b, i, borrow, acc) ==
    IF i > Len(a) THEN acc
    ELSE Only({ NatSubFrom(a, b, n, IF s < 0 THEN 1 ELSE 0, next) :
                s \in {a[i] - Digit(b, i) - borrow}, n \in {i + 1},
                next \in {Append(acc, (a[i] - Digit(b, i) - borrow + BASE) % BASE)} })

\* a - b for a >= b
NatSub(a, b) == Only({NatTrim(NatSubFrom(x, y, 1, 0, <<>>)) : x \in {a}, y \in {b}})

\* the digits of a * d from digit i on, after acc
RECURSIVE NatMulDigitFrom(_, _, _, _, _)
NatMulDigitFrom(a, d, i, carry, acc) ==
    IF i > Len(a) THEN (IF carry = 0 THEN acc ELSE Append(acc, carry))
    ELSE Only({ NatMulDigitFrom(a, d, n, s \div BASE, next) :
                s \in {a[i] * d + carry}, n \in {i + 1},
                next \in {Append(acc, (a[i] * d + carry) % BASE)} })

\* a * d for a digit d
NatMulDigit(a, d) ==
    Only({ IF k = 0 THEN <<>> ELSE IF k = 1 THEN x ELSE NatMulDigitFrom(x, k, 1, 0, <<>>) :
           x \in {a}, k \in {d} })

\* a * BASE^k
NatShiftDigits(a, k) ==
    Only({ IF Len(x) = 0 \/ n = 0 THEN x ELSE [i \in 1..n |-> 0] \o x :
           x \in {a}, n \in {k} })

\* a * b from digit j of b on, added to acc
RECURSIVE NatMulFrom(_, _, _, _)
NatMulFrom(a, b, j, acc) ==
    IF j > Len(b) THEN acc
    ELSE Only({ NatMulFrom(a, b, n, next) : n \in {j + 1},
                next \in {NatAdd(acc, NatShiftDigits(NatMulDigit(a, b[j]), j - 1))} })

NatMul(a, b) ==
    Only({ IF Len(x) < Len(y) THEN NatMulFrom(y, x, 1, <<>>) ELSE NatMulFrom(x, y, 1, <<>>) :
           x \in {a}, y \in {b} })

\* the number of bits of a digit
DigitBits(d) ==
    Only({ Cardinality({k \in 0..(DIGIT_BITS - 1) : Pow2(k) <= v}) : v \in {d} })

\* the number of bits of a (0 for 0)
BitLen(a) ==
    Only({ IF Len(x) = 0 THEN 0 ELSE (Len(x) - 1) * DIGIT_BITS + DigitBits(x[Len(x)]) :
           x \in {a} })

\* a * 2^k
NatShl(a, k) ==
    Only({ NatShiftDigits(NatMulDigit(x, Pow2(n % DIGIT_BITS)), n \div DIGIT_BITS) :
           x \in {a}, n \in {k} })

\* a \div 2^k
NatShr(a, k) ==
    Only({ IF n <= 0 THEN <<>>
           ELSE IF r = 0 THEN SubSeq(x, drop + 1, Len(x))
           ELSE NatTrim([i \in 1..n |->
                    (x[drop + i] \div Pow2(r))
                    + (Digit(x, drop + i + 1) % Pow2(r)) * Pow2(DIGIT_BITS - r)]) :
           x \in {a}, drop \in {k \div DIGIT_BITS}, r \in {k % DIGIT_BITS},
           n \in {Len(a) - k \div DIGIT_BITS} })

\* bit k of a (bit 0 is the lowest)
NatBit(a, k) == (Digit(a, k \div DIGIT_BITS + 1) \div Pow2(k % DIGIT_BITS)) % 2

\* some bit of a below bit k is 1
NatLowBits(a, k) ==
    \/ \E i \in 1..Min(Len(a), k \div DIGIT_BITS) : a[i] # 0
    \/ Digit(a, k \div DIGIT_BITS + 1) % Pow2(k % DIGIT_BITS) # 0

\* the number of zero bits at the low end of a digit d > 0
DigitZeros(d) ==
    Only({ Cardinality({k \in 1..DIGIT_BITS : v % Pow2(k) = 0}) : v \in {d} })

\* the number of zero bits at the low end of a > 0, from digit i on
RECURSIVE NatZerosFrom(_, _)
NatZerosFrom(a, i) ==
    IF a[i] = 0 THEN DIGIT_BITS + NatZerosFrom(a, i + 1) ELSE DigitZeros(a[i])

\* the quotient digit of r \div b for r < b * BASE, b with its highest digit
\* at least BASE / 2: the estimate q, of product p with b, lowered while p is
\* above r (Knuth, 4.3.1 D); <<digit, r - digit * b>>
RECURSIVE QuotientDigit(_, _, _, _)
QuotientDigit(r, b, q, p) ==
    IF NatCmp(p, r) > 0
    THEN Only({QuotientDigit(r, b, q1, p1) : q1 \in {q - 1}, p1 \in {NatSub(p, b)}})
    ELSE <<q, NatSub(r, p)>>

\* long division of a by b, digit i of a being brought down into the
\* remainder r; <<the digits of the quotient, the remainder>>
RECURSIVE NatDivFrom(_, _, _, _, _)
NatDivFrom(a, b, i, r, q) ==
    IF i = 0 THEN <<q, r>>
    ELSE Only({ Only({ Only({ NatDivFrom(a, b, n, step[2], next) :
                              n \in {i - 1}, next \in {<<step[1]>> \o q} }) :
                       step \in {QuotientDigit(r1, b, est, NatMulDigit(b, est))} }) :
                r1 \in {NatTrim(<<a[i]>> \o r)},
                est \in {Min(BASE - 1,
                             (Digit(NatTrim(<<a[i]>> \o r), Len(b) + 1) * BASE
                              + Digit(NatTrim(<<a[i]>> \o r), Len(b))) \div b[Len(b)])} })

\* <<a \div b, a % b # 0>> for b > 0
NatDiv(a, b) ==
    Only({ Only({ <<NatTrim(d[1]), Len(d[2]) > 0>> :
                  d \in {NatDivFrom(x, y, Len(x), <<>>, <<>>)} }) :
           x \in {NatShl(a, DIGIT_BITS - DigitBits(b[Len(b)]))},
           y \in {NatShl(b, DIGIT_BITS - DigitBits(b[Len(b)]))} })

----------------------------------------------------------------------------
(* The doubles and their arithmetic.                                       *)

\* A float is <<sign, mantissa, exponent>>: the double sign * mantissa *
\* 2^exponent, the sign 1 or -1, the mantissa an odd natural number below
\* 2^53, the exponent at least -1074 and the value below 2^1024.  The two
\* zeros are <<1, <<>>, 0>> and <<-1, <<>>, 0>>, the infinities
\* <<1, <<1>>, 1024>> and <<-1, <<1>>, 1024>>, and nan is <<0, <<1>>, 1024>>.
MANT_BITS == 53
\* the lowest bit of a double is 2^-1074
MIN_EXP == -1074
\* every finite double is below 2^1024
MAX_EXP == 1024

FZERO == <<1, <<>>, 0>>
FONE == <<1, <<1>>, 0>>
\* float('inf')
FINF == <<1, <<1>>, 1024>>
\* nan, the result of inf / inf, inf - inf and 0 * inf
FNAN == <<0, <<1>>, 1024>>

\* what a division by zero raises
ZeroDivisionError == "ZeroDivisionError"

IsNan(x) == x = FNAN
IsInf(x) == x[1] # 0 /\ x[3] = MAX_EXP
IsZero(x) == x[1] # 0 /\ Len(x[2]) = 0

\* sign * n * 2^e with the zero bits at the low end of n moved to the exponent
Canon(sign, n, e) ==
    Only({ IF Len(m) = 0 THEN <<sign, <<>>, 0>>
           ELSE Only({ <<sign, NatShr(m, z), e + z>> : z \in {NatZerosFrom(m, 1)} }) :
           m \in {n} })

\* the float x, or the infinity of its sign when x is 2^1024 or more
Overflow(x) ==
    Only({ IF BitLen(a[2]) + a[3] > MAX_EXP THEN <<a[1], <<1>>, MAX_EXP>> ELSE a :
           a \in {x} })

\* sign * n * 2^e rounded to the nearest double, ties to the even mantissa:
\* to 53 bits, or to the multiple of 2^-1074 where that is coarser (gradual
\* underflow), and to the infinity from 2^1024 on; sticky says that the exact
\* value is above n * 2^e by less than 2^e
FRound(sign, n, e, sticky) ==
    Only({ IF shift <= 0 THEN Overflow(Canon(sign, m, e))
           ELSE Only({ LET half == NatBit(m, shift - 1) = 1
                           rest == sticky \/ NatLowBits(m, shift - 1)
                           up == half /\ (rest \/ NatBit(q, 0) = 1)
                       IN  Overflow(Canon(sign, IF up THEN NatAdd(q, <<1>>) ELSE q,
                                          e + shift)) :
                       q \in {NatShr(m, shift)} }) :
           m \in {n}, shift \in {Max(BitLen(n) - MANT_BITS, MIN_EXP - e)} })

\* the double of an integer n >= 0 below 2^31
FInt(n) == Canon(1, NatOf(n), 0)

\* x * y
FMul(x, y) ==
    Only({ IF IsNan(a) \/ IsNan(b) THEN FNAN
           ELSE IF IsInf(a) \/ IsInf(b)
           THEN (IF IsZero(a) \/ IsZero(b) THEN FNAN ELSE <<a[1] * b[1], <<1>>, MAX_EXP>>)
           ELSE IF IsZero(a) \/ IsZero(b) THEN <<a[1] * b[1], <<>>, 0>>
           ELSE FRound(a[1] * b[1], NatMul(a[2], b[2]), a[3] + b[3], FALSE) :
           a \in {x}, b \in {y} })

\* x / y; a division by zero raises ZeroDivisionError
FDiv(x, y) ==
    Only({ IF IsZero(b) THEN ZeroDivisionError
           ELSE IF IsNan(a) \/ IsNan(b) THEN FNAN
           ELSE IF IsInf(a)
           THEN (IF IsInf(b) THEN FNAN ELSE <<a[1] * b[1], <<1>>, MAX_EXP>>)
           ELSE IF IsInf(b) \/ IsZero(a) THEN <<a[1] * b[1], <<>>, 0>>
           ELSE IF b[2] = <<1>> THEN FRound(a[1] * b[1], a[2], a[3] - b[3], FALSE)
           ELSE Only({ Only({ FRound(a[1] * b[1], d[1], a[3] - b[3] - k, d[2]) :
                              d \in {NatDiv(NatShl(a[2], k), b[2])} }) :
                       k \in {Max(0, MANT_BITS + 3 + BitLen(b[2]) - BitLen(a[2]))} }) :
           a \in {x}, b \in {y} })

\* -1, 0, 1 as |x| < |y|, |x| = |y|, |x| > |y|, for x and y other than nan
FCmpAbs(x, y) ==
    Only({ IF Len(a[2]) = 0 \/ Len(b[2]) = 0
           THEN (IF Len(a[2]) = Len(b[2]) THEN 0 ELSE IF Len(a[2]) = 0 THEN -1 ELSE 1)
           ELSE Only({ IF ta < tb THEN -1
                       ELSE IF ta > tb THEN 1
                       ELSE NatCmp(NatShl(a[2], a[3] - e), NatShl(b[2], b[3] - e)) :
                       ta \in {BitLen(a[2]) + a[3]}, tb \in {BitLen(b[2]) + b[3]},
                       e \in {Min(a[3], b[3])} }) :
           a \in {x}, b \in {y} })

\* -1, 0, 1 as x < y, x = y, x > y, for x and y other than nan; the two
\* zeros are equal
FCmp(x, y) ==
    Only({ IF a = b \/ (IsZero(a) /\ IsZero(b)) THEN 0
           ELSE IF a[1] # b[1] THEN a[1]
           ELSE a[1] * FCmpAbs(a, b) :
           a \in {x}, b \in {y} })

\* the comparisons of Python: each is False when x or y is nan
FLt(x, y) == ~IsNan(x) /\ ~IsNan(y) /\ FCmp(x, y) < 0
FLeq(x, y) == ~IsNan(x) /\ ~IsNan(y) /\ FCmp(x, y) <= 0
FGt(x, y) == ~IsNan(x) /\ ~IsNan(y) /\ FCmp(x, y) > 0
FGeq(x, y) == ~IsNan(x) /\ ~IsNan(y) /\ FCmp(x, y) >= 0
FEq(x, y) == ~IsNan(x) /\ ~IsNan(y) /\ FCmp(x, y) = 0

\* -x
FNeg(x) == Only({ <<0 - a[1], a[2], a[3]>> : a \in {x} })

\* x + y; a term below a quarter of the other's last place changes nothing
FAdd(x, y) ==
    Only({ IF IsNan(a) \/ IsNan(b) THEN FNAN
           ELSE IF IsInf(a) THEN (IF IsInf(b) /\ a[1] # b[1] THEN FNAN ELSE a)
           ELSE IF IsInf(b) THEN b
           ELSE IF IsZero(a) THEN (IF IsZero(b) /\ a[1] # b[1] THEN FZERO ELSE b)
           ELSE IF IsZero(b) THEN a
           ELSE IF BitLen(b[2]) + b[3] < BitLen(a[2]) + a[3] - (MANT_BITS + 2) THEN a
           ELSE IF BitLen(a[2]) + a[3] < BitLen(b[2]) + b[3] - (MANT_BITS + 2) THEN b
           ELSE Only({ IF a[1] = b[1] THEN FRound(a[1], NatAdd(m, n), e, FALSE)
                       ELSE Only({ IF c = 0 THEN FZERO
                                   ELSE IF c > 0 THEN FRound(a[1], NatSub(m, n), e, FALSE)
                                   ELSE FRound(b[1], NatSub(n, m), e, FALSE) :
                                   c \in {NatCmp(m, n)} }) :
                       e \in {Min(a[3], b[3])},
                       m \in {NatShl(a[2], a[3] - Min(a[3], b[3]))},
                       n \in {NatShl(b[2], b[3] - Min(a[3], b[3]))} }) :
           a \in {x}, b \in {y} })

\* x - y
FSub(x, y) == FAdd(x, FNeg(y))

\* the double nearest to n / d: what Python reads a decimal literal as
FDec(n, d) == FDiv(FInt(n), FInt(d))

\* 2.0 ** e for e in -1074..1023
FPow2(e) == <<1, <<1>>, e>>

\* Python's min(x, y): the first argument unless the second is less
FMin(x, y) == Only({ IF FLt(b, a) THEN b ELSE a : a \in {x}, b \in {y} })

\* the integer nearest to x * 10 for a finite x >= 0, ties to the even one,
\* as the digits of a natural number: the tenths that round(x, 1) and the
\* format .1f keep of x
Tenths(x) ==
    Only({ IF a[3] >= 0 THEN NatShl(n, a[3])
           ELSE Only({ LET half == NatBit(n, shift - 1) = 1
                           rest == NatLowBits(n, shift - 1)
                       IN  IF half /\ (rest \/ NatBit(q, 0) = 1)
                           THEN NatAdd(q, <<1>>) ELSE q :
                       shift \in {0 - a[3]}, q \in {NatShr(n, 0 - a[3])} }) :
           a \in {x}, n \in {NatMulDigit(x[2], 10)} })

\* Python's round(x, 1) for x >= 0; round(inf, 1) is inf, round(nan, 1) is
\* nan, and an integer is its own rounding
FRound1(x) ==
    Only({ IF IsNan(a) \/ IsInf(a) \/ a[3] >= 0 THEN a ELSE FDiv(Canon(1, Tenths(a), 0), FInt(10)) :
           a \in {x} })
----------------------------------------------------------------------------
(* Program constants and reference data.                                   *)

\* B9_DILUTION_FACTOR = 0.7
B9_DILUTION_FACTOR == FDec(7, 10)

\* ratio_cap = 100.0
ratio_cap == FInt(100)

MAX_COMBINATION_SIZE == 5

\* ELECTROLYTE_PER_KG_H2 = 12.6
ELECTROLYTE_PER_KG_H2 == FDec(126, 10)

\* epsilon = 1e-6, and the 1e-6 of the analysis block
EPSILON == FDec(1, 1000000)

\* the unit volume 1.0 of rank_water_sources
UNIT_VOLUME == FONE

\* Python's None where a float is expected
None == <<0, <<>>, 0>>

\* Python's None where an analyte name is expected
NoAnalyte == "None"

\* no exception was raised
NoError == "none"

\* The cells of the shipped table as the source writes them, in thousandths
\* (28.0 is 28000, 0.005 is 5).
TABLE_CELLS ==
    [ t \in { "DISTILLED WATER", "RAIN WATER", "TAP WATER (CARDIFF)",
              "FINAL SEWAGE EFFLUENT", "Yeo Valley (Final Effluent)",
              "CRUDE SEWAGE", "ANY SEWAGE", "ANY TRADE EFFLUENT",
              "TRADE EFFLUENT - FRESHWATER RETURNED ABSTRACTED",
              "STORM SEWER OVERFLOW DISCHARGE", "SURFACE DRAINAGE",
              "ANY LEACHATE", "GROUNDWATER - PURGED/PUMPED/REFILLED",
              "MINEWATER", "CANAL WATER" } |->
      CASE t = "DISTILLED WATER" ->
        [Chloride |-> 0, Bromide |-> 0, Iodide |-> 0, Sulphide |-> 0, Cyanide |-> 0, Nitrate |-> 0, Nitrite |-> 0, Ammonium |-> 0]
      [] t = "RAIN WATER" ->
        [Chloride |-> 3470, Bromide |-> 0, Iodide |-> 0, Sulphide |-> 0, Cyanide |-> 0, Nitrate |-> 270, Nitrite |-> 0, Ammonium |-> 410]
      [] t = "TAP WATER (CARDIFF)" ->
        [Chloride |-> 0, Bromide |-> 0, Iodide |-> 0, Sulphide |-> 0, Cyanide |-> 0, Nitrate |-> 0, Nitrite |-> 0, Ammonium |-> 0]
      [] t = "FINAL SEWAGE EFFLUENT" ->
        [Chloride |-> 94300, Bromide |-> 119, Iodide |-> 3, Sulphide |-> 17, Cyanide |-> 5, Nitrate |-> 14000, Nitrite |-> 200, Ammonium |-> 820]
      [] t = "Yeo Valley (Final Effluent)" ->
        [Chloride |-> 36100, Bromide |-> 0, Iodide |-> 0, Sulphide |-> 0, Cyanide |-> 0, Nitrate |-> 0, Nitrite |-> 0, Ammonium |-> 1050]
      [] t = "CRUDE SEWAGE" ->
        [Chloride |-> 180000, Bromide |-> 0, Iodide |-> 0, Sulphide |-> 16, Cyanide |-> 7, Nitrate |-> 600, Nitrite |-> 38, Ammonium |-> 28000]
      [] t = "ANY SEWAGE" ->
        [Chloride |-> 99000, Bromide |-> 0, Iodide |-> 0, Sulphide |-> 22, Cyanide |-> 5, Nitrate |-> 9720, Nitrite |-> 120, Ammonium |-> 3390]
      [] t = "ANY TRADE EFFLUENT" ->
        [Chloride |-> 77000, Bromide |-> 317, Iodide |-> 13, Sulphide |-> 24, Cyanide |-> 12, Nitrate |-> 3415, Nitrite |-> 44, Ammonium |-> 500]
      [] t = "TRADE EFFLUENT - FRESHWATER RETURNED ABSTRACTED" ->
        [Chloride |-> 39600, Bromide |-> 145, Iodide |-> 0, Sulphide |-> 10, Cyanide |-> 0, Nitrate |-> 6225, Nitrite |-> 24, Ammonium |-> 87]
      [] t = "STORM SEWER OVERFLOW DISCHARGE" ->
        [Chloride |-> 58400, Bromide |-> 0, Iodide |-> 0, Sulphide |-> 73, Cyanide |-> 382, Nitrate |-> 900, Nitrite |-> 100, Ammonium |-> 6430]
      [] t = "SURFACE DRAINAGE" ->
        [Chloride |-> 69600, Bromide |-> 76, Iodide |-> 20, Sulphide |-> 15, Cyanide |-> 5, Nitrate |-> 1680, Nitrite |-> 50, Ammonium |-> 500]
      [] t = "ANY LEACHATE" ->
        [Chloride |-> 778000, Bromide |-> 7600, Iodide |-> 20, Sulphide |-> 70, Cyanide |-> 50, Nitrate |-> 900, Nitrite |-> 100, Ammonium |-> 120500]
      [] t = "GROUNDWATER - PURGED/PUMPED/REFILLED" ->
        [Chloride |-> 43800, Bromide |-> 82, Iodide |-> 3, Sulphide |-> 10, Cyanide |-> 5, Nitrate |-> 6000, Nitrite |-> 4, Ammonium |-> 89]
      [] t = "MINEWATER" ->
        [Chloride |-> 19000, Bromide |-> 101, Iodide |-> 3, Sulphide |-> 10, Cyanide |-> 5, Nitrate |-> 312, Nitrite |-> 4, Ammonium |-> 30]
      [] t = "CANAL WATER" ->
        [Chloride |-> 58000, Bromide |-> 67, Iodide |-> 0, Sulphide |-> 11, Cyanide |-> 8, Nitrate |-> 2040, Nitrite |-> 19, Ammonium |-> 56] ]

\* a cell in thousandths as the float the source's literal denotes
Milli(n) == FDec(n, 1000)

\* The shipped table, in mg/L.
WATER_TYPE_CONCENTRATIONS ==
    [t \in DOMAIN TABLE_CELLS |->
        [a \in DOMAIN TABLE_CELLS[t] |-> Milli(TABLE_CELLS[t][a])]]

\* a profile: (analyte, threshold) in the dict's insertion order, from the
\* thresholds in thousandths
Profile(cells) == [i \in 1..Len(cells) |-> <<cells[i][1], Milli(cells[i][2])>>]

ALKALINE_ESCALATION_LEVELS ==
    Profile(<< <<"Chloride", 3500000>>, <<"Bromide", 8000>>, <<"Iodide", 1300>>,
               <<"Sulphide", 1000>>, <<"Cyanide", 20>>, <<"Nitrate", 50000>>,
               <<"Nitrite", 50000>>, <<"Ammonium", 10000>> >>)

NEUTRAL_ESCALATION_LEVELS ==
    Profile(<< <<"Chloride", 20000>>, <<"Bromide", 500>>, <<"Iodide", 100>>,
               <<"Sulphide", 200>>, <<"Cyanide", 20>>, <<"Nitrate", 10000>>,
               <<"Nitrite", 1000>>, <<"Ammonium", 2000>> >>)

ACIDIC_ESCALATION_LEVELS ==
    Profile(<< <<"Chloride", 350000>>, <<"Bromide", 1000>>, <<"Iodide", 100>>,
               <<"Sulphide", 100>>, <<"Cyanide", 5>>, <<"Nitrate", 10000>>,
               <<"Nitrite", 10000>>, <<"Ammonium", 1000>> >>)

----------------------------------------------------------------------------
(* The functions of the engine.                                            *)

\* WATER_TYPE_CONCENTRATIONS[water_type].get(analyte, 0.0), then None -> 0.0
Concentration(water_type, analyte) ==
    LET row == reference[water_type]
        conc == IF analyte \in DOMAIN row THEN row[analyte] ELSE FZERO
    IN  IF conc = None THEN FZERO ELSE conc

\* BlendLoop with a source of unknown concentration skipped, its volume too
RECURSIVE BlendLoopSkipsUnknown(_, _, _, _)
BlendLoopSkipsUnknown(water_sources, analyte, i, acc) ==
    IF i > Len(water_sources) THEN acc
    ELSE LET water_type == water_sources[i][1]
             volume == water_sources[i][2]
             row == reference[water_type]
             known == analyte \in DOMAIN row /\ row[analyte] # None
         IN  Only({ BlendLoopSkipsUnknown(water_sources, analyte, n, next) :
                    n \in {i + 1},
                    next \in {IF known
                              THEN <<FAdd(acc[1], FMul(row[analyte], volume)),
                                     FAdd(acc[2], volume)>>
                              ELSE acc} })

\* BlendLoop with total_volume = volume in place of total_volume += volume
RECURSIVE BlendLoopLastVolume(_, _, _, _)
BlendLoopLastVolume(water_sources, analyte, i, acc) ==
    IF i > Len(water_sources) THEN acc
    ELSE LET water_type == water_sources[i][1]
             volume == water_sources[i][2]
             conc == Concentration(water_type, analyte)
         IN  Only({ BlendLoopLastVolume(water_sources, analyte, n, next) :
                    n \in {i + 1},
                    next \in {<<FAdd(acc[1], FMul(conc, volume)), volume>>} })

\* the loop of calculate_blend_concentration over water_sources[i..]:
\* acc = <<total_mass, total_volume>>
RECURSIVE BlendLoop(_, _, _, _)
BlendLoop(water_sources, analyte, i, acc) ==
    IF i > Len(water_sources) THEN acc
    ELSE LET water_type == water_sources[i][1]
             volume == water_sources[i][2]
             conc == Concentration(water_type, analyte)
         IN  Only({ BlendLoop(water_sources, analyte, n, next) :
                    n \in {i + 1},
                    next \in {<<FAdd(acc[1], FMul(conc, volume)),
                                FAdd(acc[2], volume)>>} })

calculate_blend_concentration(water_sources, analyte) ==
    Only({ LET total_mass == acc[1]
               total_volume == acc[2]
           IN  IF FEq(total_volume, FZERO) THEN FZERO ELSE FDiv(total_mass, total_volume) :
           acc \in {BlendLoop(water_sources, analyte, 1, <<FZERO, FZERO>>)} })

\* apply_b9_dilution without the factor
apply_b9_dilution_undiluted(concentration) == concentration

apply_b9_dilution(concentration) == FMul(concentration, B9_DILUTION_FACTOR)

\* get_status with > in place of >=
get_status_strict(final_concentration, escalation_level) ==
    IF FGt(final_concentration, escalation_level) THEN "escalation" ELSE "safe"

get_status(final_concentration, escalation_level) ==
    IF FGeq(final_concentration, escalation_level) THEN "escalation" ELSE "safe"

\* sum(v for _, v in water_sources): 0 + v1 + v2 + ..., added from the left
\* one by one (CPython's sum before version 3.12)
RECURSIVE SumVolumes(_, _, _)
SumVolumes(water_sources, i, acc) ==
    IF i > Len(water_sources) THEN acc
    ELSE Only({ SumVolumes(water_sources, n, next) :
                n \in {i + 1}, next \in {FAdd(acc, water_sources[i][2])} })

\* Tally with the overall status following the analyte at hand
TallyLastDecides(r, analyte, limit, final_conc, status) ==
    IF status = "safe"
    THEN [r EXCEPT !.safe_count = @ + 1, !.overall_status = "safe"]
    ELSE [r EXCEPT !.escalation_count = @ + 1,
                   !.limiting_analytes = Append(@, <<analyte, final_conc, limit>>),
                   !.overall_status = "escalation"]

\* the status branch of the loop of analyze_combination: the counts, the
\* limiting analytes and the overall status
Tally(r, analyte, limit, final_conc, status) ==
    IF status = "safe"
    THEN [r EXCEPT !.safe_count = @ + 1]
    ELSE [r EXCEPT !.escalation_count = @ + 1,
                   !.limiting_analytes = Append(@, <<analyte, final_conc, limit>>),
                   !.overall_status = "escalation"]

\* TrackWorst with ratio = final_conc / limit
TrackWorstInverted(r, analyte, limit, final_conc) ==
    IF FGt(final_conc, FZERO)
    THEN Only({ IF FLt(ratio, r.worst_ratio)
                THEN [r EXCEPT !.worst_ratio = ratio, !.worst_analyte = analyte]
                ELSE r :
                ratio \in {FDiv(final_conc, limit)} })
    ELSE r

\* if final_conc > 0: ratio = limit / final_conc; if ratio < worst_ratio: ...
TrackWorst(r, analyte, limit, final_conc) ==
    IF FGt(final_conc, FZERO)
    THEN Only({ IF FLt(ratio, r.worst_ratio)
                THEN [r EXCEPT !.worst_ratio = ratio, !.worst_analyte = analyte]
                ELSE r :
                ratio \in {FDiv(limit, final_conc)} })
    ELSE r

\* TrackDilution with >= in place of >: the last analyte wins a tie
TrackDilutionLastTie(r, analyte, limit, final_conc) ==
    IF FGt(final_conc, FZERO) /\ FGt(final_conc, limit)
    THEN IF IsZero(limit) THEN [r EXCEPT !.raised = ZeroDivisionError]
    ELSE Only({ IF FGeq(dilution, r.max_dilution_needed)
                THEN [r EXCEPT !.max_dilution_needed = dilution,
                               !.dilution_limiting_analyte = analyte]
                ELSE r :
                dilution \in {FDiv(final_conc, limit)} })
    ELSE r

\* if final_conc > 0 and final_conc > limit: dilution = final_conc / limit;
\* if dilution > max_dilution_needed: ...; the division raises when the limit
\* is 0
TrackDilution(r, analyte, limit, final_conc) ==
    IF FGt(final_conc, FZERO) /\ FGt(final_conc, limit)
    THEN IF IsZero(limit) THEN [r EXCEPT !.raised = ZeroDivisionError]
    ELSE Only({ IF FGt(dilution, r.max_dilution_needed)
                THEN [r EXCEPT !.max_dilution_needed = dilution,
                               !.dilution_limiting_analyte = analyte]
                ELSE r :
                dilution \in {FDiv(final_conc, limit)} })
    ELSE r

\* One iteration of the loop of analyze_combination, for the profile item
\* (analyte, limit); r holds results, the loop's local variables and the
\* exception raised, if any.
AnalyzeStep(water_sources, analyte, limit, r) ==
    Only({ Only({ Only({ Only({ Only({ TrackDilution(r3, analyte, limit, final_conc) :
                                       r3 \in {TrackWorst(r2, analyte, limit, final_conc)} }) :
                                r2 \in {Tally(r1, analyte, limit, final_conc, status)} }) :
                         r1 \in {[r EXCEPT !.analyte_results =
                                     (analyte :> [blend_concentration |-> blend_conc,
                                                  final_concentration |-> final_conc,
                                                  escalation_level |-> limit,
                                                  status |-> status]) @@ @]} }) :
                  final_conc \in {apply_b9_dilution(blend_conc)},
                  status \in {get_status(apply_b9_dilution(blend_conc), limit)} }) :
           blend_conc \in {calculate_blend_concentration(water_sources, analyte)} })

\* for analyte, limit in escalation_levels.items(), from item i on; an
\* exception ends the loop
RECURSIVE AnalyzeLoop(_, _, _, _)
AnalyzeLoop(water_sources, escalation_levels, i, r) ==
    IF i > Len(escalation_levels) \/ r.raised # NoError THEN r
    ELSE Only({ AnalyzeLoop(water_sources, escalation_levels, n, next) :
                n \in {i + 1},
                next \in {AnalyzeStep(water_sources, escalation_levels[i][1],
                                      escalation_levels[i][2], r)} })

\* returns results, or raises: [raised |-> the exception]
analyze_combination(water_sources, escalation_levels) ==
    Only({ IF r.raised # NoError THEN [raised |-> r.raised] ELSE
           [overall_status |-> r.overall_status,
            analyte_results |-> r.analyte_results,
            total_volume |-> r.total_volume,
            limiting_analytes |-> r.limiting_analytes,
            safe_count |-> r.safe_count,
            escalation_count |-> r.escalation_count,
            safety_score |-> IF FEq(r.worst_ratio, FINF) THEN ratio_cap
                             ELSE FMin(r.worst_ratio, ratio_cap),
            worst_analyte |-> r.worst_analyte,
            worst_ratio |-> IF FEq(r.worst_ratio, FINF) THEN ratio_cap ELSE r.worst_ratio,
            required_dilution |-> r.max_dilution_needed,
            dilution_limiting_analyte |-> r.dilution_limiting_analyte] :
           r \in {AnalyzeLoop(water_sources, escalation_levels, 1,
                     [overall_status |-> "safe",
                      analyte_results |-> <<>>,
                      total_volume |-> SumVolumes(water_sources, 1, FZERO),
                      limiting_analytes |-> <<>>,
                      safe_count |-> 0,
                      escalation_count |-> 0,
                      worst_ratio |-> FINF,
                      worst_analyte |-> NoAnalyte,
                      max_dilution_needed |-> FONE,
                      dilution_limiting_analyte |-> NoAnalyte,
                      raised |-> NoError])} })
\* itertools.combinations(range(lo, n + 1), r): the increasing r-tuples of
\* positions lo..n in lexicographic order (positions count from 1 here)
RECURSIVE combinations(_, _, _)
combinations(lo, n, r) ==
    IF r = 0 THEN << <<>> >>
    ELSE LET from[i \in lo..(n + 1)] ==
                 IF i > n THEN <<>>
                 ELSE LET rest == combinations(i + 1, n, r - 1)
                      IN  [k \in 1..Len(rest) |-> <<i>> \o rest[k]] \o from[i + 1]
         IN  from[lo]

\* for r in range(r, stop): for combo in combinations(range(n), r): ...
RECURSIVE SizeLoop(_, _, _)
SizeLoop(water_entries, r, stop) ==
    IF r >= stop THEN <<>>
    ELSE LET combos == combinations(1, Len(water_entries), r)
             sources(combo) ==
                 [j \in 1..Len(combo) |->
                     <<water_entries[combo[j]].type, water_entries[combo[j]].volume>>]
         IN  [k \in 1..Len(combos) |-> sources(combos[k])]
             \o SizeLoop(water_entries, r + 1, stop)

\* get_all_combinations with range(1, min(n, max_size))
get_all_combinations_short(water_entries, max_size) ==
    SizeLoop(water_entries, 1, Min(Len(water_entries), max_size))

get_all_combinations(water_entries, max_size) ==
    LET n == Len(water_entries)
    IN  SizeLoop(water_entries, 1, Min(n + 1, max_size + 1))

\* (a, x) < (b, y) on Python tuples of an int and a float: the first items
\* that are not == decide, by <
KeyLt(k1, k2) == k1[1] < k2[1] \/ (k1[1] = k2[1] /\ FLt(k1[2], k2[2]))

\* sorted and list.sort are the list sort of CPython (Objects/listobject.c of
\* 3.11). It works on an array a of positions of the unsorted list, position
\* i having the key keys[i]; offsets into the array count from 0 as in the C
\* code, so the item at offset k is a[k + 1]. Keys are compared with < only:
\* the result is the stable sort when < orders the keys, and whatever these
\* comparisons leave when a key holds nan. A loop of the C code is an operator
\* that takes the number of rounds it may make and makes them half by half,
\* so that the evaluation nests as deep as the logarithm of that number; it
\* is given as many rounds as the loop can make at most.

\* a run has to win this many times in a row before a merge gallops
MIN_GALLOP == 7

\* merge_compute_minrun: n itself below 64, else the first six bits of n,
\* plus one if a bit after them is set
RECURSIVE merge_compute_minrun(_, _)
merge_compute_minrun(n, r) ==
    IF n >= 64 THEN merge_compute_minrun(n \div 2, IF n % 2 = 1 THEN 1 ELSE r)
    ELSE n + r

\* the loops of count_run: the length of the run that starts at offset lo,
\* n items of it counted so far; a descending run goes on while each key is
\* less than the one before it, an ascending run until one is
RECURSIVE count_run_loop(_, _, _, _, _, _, _)
count_run_loop(keys, a, lo, hi, descending, n, rounds) ==
    IF ~(lo + n < hi /\ KeyLt(keys[a[lo + n + 1]], keys[a[lo + n]]) = descending)
    THEN n
    ELSE IF rounds = 1 THEN n + 1
    ELSE Only({ count_run_loop(keys, a, lo, hi, descending, m, rounds - rounds \div 2) :
                m \in {count_run_loop(keys, a, lo, hi, descending, n, rounds \div 2)} })

\* count_run: the length of the run a[lo..hi) starts with and whether it
\* descends, which it does when its second key is less than its first
count_run(keys, a, lo, hi) ==
    IF lo + 1 = hi THEN [n |-> 1, descending |-> FALSE]
    ELSE Only({ [n |-> count_run_loop(keys, a, lo, hi, descending, 2, hi - lo),
                 descending |-> descending] :
                descending \in {KeyLt(keys[a[lo + 2]], keys[a[lo + 1]])} })

\* reverse_sortslice: the n items from offset lo on in reverse
reverse_sortslice(a, lo, n) ==
    <<>> \o [k \in 1..Len(a) |->
                IF k > lo /\ k <= lo + n THEN a[2 * lo + n + 1 - k] ELSE a[k]]

\* the binary search of binarysort: the offset in l..r at which the pivot
\* goes
RECURSIVE InsertionPoint(_, _, _, _, _)
InsertionPoint(keys, a, pivot, l, r) ==
    IF l >= r THEN l
    ELSE LET p == l + ((r - l) \div 2)
         IN  IF KeyLt(keys[pivot], keys[a[p + 1]])
             THEN InsertionPoint(keys, a, pivot, l, p)
             ELSE InsertionPoint(keys, a, pivot, p + 1, r)

\* binarysort: a[lo..start) is sorted; the items of a[start..hi) are put, one
\* after the other, where the binary search finds their place before them
RECURSIVE binarysort_loop(_, _, _, _, _, _)
binarysort_loop(keys, a, lo, hi, start, rounds) ==
    IF start >= hi THEN a
    ELSE IF rounds = 1
    THEN Only({ SubSeq(a, 1, l) \o <<a[start + 1]>> \o SubSeq(a, l + 1, start)
                \o SubSeq(a, start + 2, Len(a)) :
                l \in {InsertionPoint(keys, a, a[start + 1], lo, start)} })
    ELSE Only({ binarysort_loop(keys, moved, lo, hi, start + rounds \div 2,
                                rounds - rounds \div 2) :
                moved \in {binarysort_loop(keys, a, lo, hi, start, rounds \div 2)} })

binarysort(keys, a, lo, hi, start) ==
    IF start = lo THEN binarysort_loop(keys, a, lo, hi, start + 1, hi - lo)
    ELSE binarysort_loop(keys, a, lo, hi, start, hi - lo)

\* gallop_left going right from the hint: <<lastofs, ofs>> with
\* a[hint + lastofs] < key, until a[hint + ofs] is not less or ofs is past
\* the end
RECURSIVE gallop_left_right(_, _, _, _, _, _)
gallop_left_right(keys, key, a, hint, lastofs, ofs) ==
    IF ofs < Len(a) - hint /\ KeyLt(keys[a[hint + ofs + 1]], keys[key])
    THEN gallop_left_right(keys, key, a, hint, ofs, 2 * ofs + 1)
    ELSE <<lastofs, ofs>>

\* gallop_left going left from the hint: <<lastofs, ofs>> with
\* a[hint - lastofs] not less than key, until a[hint - ofs] < key or ofs is
\* past the start
RECURSIVE gallop_left_left(_, _, _, _, _, _)
gallop_left_left(keys, key, a, hint, lastofs, ofs) ==
    IF ofs < hint + 1 /\ ~KeyLt(keys[a[hint - ofs + 1]], keys[key])
    THEN gallop_left_left(keys, key, a, hint, ofs, 2 * ofs + 1)
    ELSE <<lastofs, ofs>>

\* the binary search that ends gallop_left
RECURSIVE gallop_left_search(_, _, _, _, _)
gallop_left_search(keys, key, a, lastofs, ofs) ==
    IF lastofs >= ofs THEN ofs
    ELSE LET m == lastofs + ((ofs - lastofs) \div 2)
         IN  IF KeyLt(keys[a[m + 1]], keys[key])
             THEN gallop_left_search(keys, key, a, m + 1, ofs)
             ELSE gallop_left_search(keys, key, a, lastofs, m)

\* gallop_left: the offset in the run a before which the item key goes, to
\* the left of the items equal to it, searched from the offset hint
gallop_left(keys, key, a, hint) ==
    IF KeyLt(keys[a[hint + 1]], keys[key])
    THEN Only({ gallop_left_search(keys, key, a, o[1] + hint + 1,
                                   Min(o[2], Len(a) - hint) + hint) :
                o \in {gallop_left_right(keys, key, a, hint, 0, 1)} })
    ELSE Only({ gallop_left_search(keys, key, a, hint - Min(o[2], hint + 1) + 1,
                                   hint - o[1]) :
                o \in {gallop_left_left(keys, key, a, hint, 0, 1)} })

\* gallop_right going left from the hint: <<lastofs, ofs>> with
\* key < a[hint - lastofs], until key is not less than a[hint - ofs] or ofs
\* is past the start
RECURSIVE gallop_right_left(_, _, _, _, _, _)
gallop_right_left(keys, key, a, hint, lastofs, ofs) ==
    IF ofs < hint + 1 /\ KeyLt(keys[key], keys[a[hint - ofs + 1]])
    THEN gallop_right_left(keys, key, a, hint, ofs, 2 * ofs + 1)
    ELSE <<lastofs, ofs>>

\* gallop_right going right from the hint: <<lastofs, ofs>> with key not
\* less than a[hint + lastofs], until key < a[hint + ofs] or ofs is past the
\* end
RECURSIVE gallop_right_right(_, _, _, _, _, _)
gallop_right_right(keys, key, a, hint, lastofs, ofs) ==
    IF ofs < Len(a) - hint /\ ~KeyLt(keys[key], keys[a[hint + ofs + 1]])
    THEN gallop_right_right(keys, key, a, hint, ofs, 2 * ofs + 1)
    ELSE <<lastofs, ofs>>

\* the binary search that ends gallop_right
RECURSIVE gallop_right_search(_, _, _, _, _)
gallop_right_search(keys, key, a, lastofs, ofs) ==
    IF lastofs >= ofs THEN ofs
    ELSE LET m == lastofs + ((ofs - lastofs) \div 2)
         IN  IF KeyLt(keys[key], keys[a[m + 1]])
             THEN gallop_right_search(keys, key, a, lastofs, m)
             ELSE gallop_right_search(keys, key, a, m + 1, ofs)

\* gallop_right: the offset in the run a before which the item key goes, to
\* the right of the items equal to it, searched from the offset hint
gallop_right(keys, key, a, hint) ==
    IF KeyLt(keys[key], keys[a[hint + 1]])
    THEN Only({ gallop_right_search(keys, key, a, hint - Min(o[2], hint + 1) + 1,
                                    hint - o[1]) :
                o \in {gallop_right_left(keys, key, a, hint, 0, 1)} })
    ELSE Only({ gallop_right_search(keys, key, a, o[1] + hint + 1,
                                    Min(o[2], Len(a) - hint) + hint) :
                o \in {gallop_right_right(keys, key, a, hint, 0, 1)} })

\* the first n items of a run, the run without them, and the same at its end
First(a, n) == SubSeq(a, 1, n)
DropFirst(a, n) == SubSeq(a, n + 1, Len(a))
Last(a, n) == SubSeq(a, Len(a) - n + 1, Len(a))
DropLast(a, n) == SubSeq(a, 1, Len(a) - n)

\* what a merge returns: the merged run and ms->min_gallop as it leaves it
Merged(run, s) == [pc |-> "done", run |-> run, min_gallop |-> s.ms_min_gallop]

\* The state of merge_lo and merge_hi: a and b are what is left of the two
\* runs, out the items merged so far (merge_lo fills the place of the runs
\* from the left, merge_hi from the right), min_gallop the local variable,
\* ms_min_gallop the field of the MergeState, acount and bcount the wins in a
\* row.

\* merge_lo after gallop_left found that k items of b go before a[0]: they
\* are moved, then a[0]; the galloping goes on while a count reaches
\* MIN_GALLOP, and one item at a time is taken after it
merge_lo_took_b(keys, s, k) ==
    IF k > 0 /\ Len(s.b) = k THEN Merged(s.out \o s.b \o s.a, s)
    ELSE IF Len(s.a) = 2
    THEN Merged(s.out \o First(s.b, k) \o <<s.a[1]>> \o DropFirst(s.b, k) \o Tail(s.a), s)
    ELSE IF s.acount >= MIN_GALLOP \/ k >= MIN_GALLOP
    THEN [s EXCEPT !.out = @ \o First(s.b, k) \o <<s.a[1]>>,
                   !.b = DropFirst(@, k), !.a = Tail(@),
                   !.bcount = k,
                   !.pc = "gallop"]
    ELSE [s EXCEPT !.out = @ \o First(s.b, k) \o <<s.a[1]>>,
                   !.b = DropFirst(@, k), !.a = Tail(@),
                   !.acount = 0, !.bcount = 0,
                   !.min_gallop = @ + 1,
                   !.ms_min_gallop = s.min_gallop + 1,
                   !.pc = "one"]

\* merge_lo after gallop_right found that k items of a go before b[0]: they
\* are copied, then b[0], and gallop_left looks for a[0] in b
merge_lo_took_a(keys, s, k) ==
    IF k > 0 /\ Len(s.a) = k + 1
    THEN Merged(s.out \o First(s.a, k) \o s.b \o DropFirst(s.a, k), s)
    ELSE IF k > 0 /\ Len(s.a) = k THEN Merged(s.out \o s.a \o s.b, s)
    ELSE IF Len(s.b) = 1 THEN Merged(s.out \o First(s.a, k) \o s.b \o DropFirst(s.a, k), s)
    ELSE Only({ Only({ merge_lo_took_b(keys, t, kb) :
                       kb \in {gallop_left(keys, t.a[1], t.b, 0)} }) :
                t \in {[s EXCEPT !.out = @ \o First(s.a, k) \o <<s.b[1]>>,
                                 !.a = DropFirst(@, k), !.b = Tail(@),
                                 !.acount = k]} })

\* the galloping loop of merge_lo, one round of it: min_gallop goes down by
\* one, not below 1, and gallop_right looks for b[0] in a
merge_lo_gallop(keys, s) ==
    Only({ Only({ merge_lo_took_a(keys, t, k) :
                  k \in {gallop_right(keys, t.b[1], t.a, 0)} }) :
           t \in {[s EXCEPT !.min_gallop = IF @ > 1 THEN @ - 1 ELSE @,
                            !.ms_min_gallop = IF s.min_gallop > 1
                                              THEN s.min_gallop - 1
                                              ELSE s.min_gallop]} })

\* the loop of merge_lo that takes one item at a time: b[0] if it is less
\* than a[0], else a[0], until a run has won min_gallop times in a row; the
\* merge ends when b is used up or one item of a is left
merge_lo_one(keys, s) ==
    IF KeyLt(keys[s.b[1]], keys[s.a[1]])
    THEN IF Len(s.b) = 1 THEN Merged(s.out \o s.b \o s.a, s)
         ELSE IF s.bcount + 1 >= s.min_gallop
         THEN [s EXCEPT !.out = Append(@, s.b[1]), !.b = Tail(@),
                        !.bcount = @ + 1, !.acount = 0,
                        !.min_gallop = @ + 1,
                        !.pc = "gallop"]
         ELSE [s EXCEPT !.out = Append(@, s.b[1]), !.b = Tail(@),
                        !.bcount = @ + 1, !.acount = 0,
                        !.pc = "one"]
    ELSE IF Len(s.a) = 2
         THEN Merged(Append(s.out, s.a[1]) \o s.b \o Tail(s.a), s)
         ELSE IF s.acount + 1 >= s.min_gallop
         THEN [s EXCEPT !.out = Append(@, s.a[1]), !.a = Tail(@),
                        !.acount = @ + 1, !.bcount = 0,
                        !.min_gallop = @ + 1,
                        !.pc = "gallop"]
         ELSE [s EXCEPT !.out = Append(@, s.a[1]), !.a = Tail(@),
                        !.acount = @ + 1, !.bcount = 0,
                        !.pc = "one"]

\* the loops of merge_lo, rounds of them: the one that takes one item at a
\* time and the galloping one, each followed by the other
RECURSIVE merge_lo_loop(_, _, _)
merge_lo_loop(keys, s, rounds) ==
    IF s.pc = "done" THEN s
    ELSE IF rounds = 1
    THEN IF s.pc = "one" THEN merge_lo_one(keys, s) ELSE merge_lo_gallop(keys, s)
    ELSE Only({ merge_lo_loop(keys, t, rounds - rounds \div 2) :
                t \in {merge_lo_loop(keys, s, rounds \div 2)} })

\* merge_lo: the runs a and b, a no longer than b, merged from the left;
\* b[0] goes first
merge_lo(keys, a, b, min_gallop) ==
    Only({ IF Len(s.b) = 0 THEN Merged(s.out \o s.a, s)
           ELSE IF Len(s.a) = 1 THEN Merged(s.out \o s.b \o s.a, s)
           ELSE merge_lo_loop(keys, s, Len(a) + Len(b)) :
           s \in {[a |-> a, b |-> Tail(b), out |-> <<b[1]>>,
                   min_gallop |-> min_gallop, ms_min_gallop |-> min_gallop,
                   acount |-> 0, bcount |-> 0, pc |-> "one"]} })

\* merge_hi after gallop_left found that the last k items of b go after the
\* last of a: they are copied, then the last of a
merge_hi_took_b(keys, s, k) ==
    IF k > 0 /\ Len(s.b) = k + 1
    THEN Merged(DropLast(s.b, k) \o s.a \o Last(s.b, k) \o s.out, s)
    ELSE IF k > 0 /\ Len(s.b) = k THEN Merged(s.a \o s.b \o s.out, s)
    ELSE IF Len(s.a) = 1 THEN Merged(DropLast(s.b, k) \o s.a \o Last(s.b, k) \o s.out, s)
    ELSE IF s.acount >= MIN_GALLOP \/ k >= MIN_GALLOP
    THEN [s EXCEPT !.out = <<s.a[Len(s.a)]>> \o Last(s.b, k) \o @,
                   !.b = DropLast(@, k), !.a = DropLast(@, 1),
                   !.bcount = k,
                   !.pc = "gallop"]
    ELSE [s EXCEPT !.out = <<s.a[Len(s.a)]>> \o Last(s.b, k) \o @,
                   !.b = DropLast(@, k), !.a = DropLast(@, 1),
                   !.acount = 0, !.bcount = 0,
                   !.min_gallop = @ + 1,
                   !.ms_min_gallop = s.min_gallop + 1,
                   !.pc = "one"]

\* merge_hi after gallop_right found that the last k items of a go after
\* the last of b: they are moved, then the last of b, and gallop_left looks
\* for the last of a in b
merge_hi_took_a(keys, s, k) ==
    IF k > 0 /\ Len(s.a) = k THEN Merged(s.b \o s.a \o s.out, s)
    ELSE IF Len(s.b) = 2
    THEN Merged(DropLast(s.b, 1) \o DropLast(s.a, k) \o Last(s.b, 1) \o Last(s.a, k) \o s.out, s)
    ELSE Only({ Only({ merge_hi_took_b(keys, t, Len(t.b) - kb) :
                       kb \in {gallop_left(keys, t.a[Len(t.a)], t.b, Len(t.b) - 1)} }) :
                t \in {[s EXCEPT !.out = <<s.b[Len(s.b)]>> \o Last(s.a, k) \o @,
                                 !.a = DropLast(@, k), !.b = DropLast(@, 1),
                                 !.acount = k]} })

\* the galloping loop of merge_hi, one round of it: min_gallop goes down by
\* one, not below 1, and gallop_right looks for the last of b in a
merge_hi_gallop(keys, s) ==
    Only({ Only({ merge_hi_took_a(keys, t, Len(t.a) - k) :
                  k \in {gallop_right(keys, t.b[Len(t.b)], t.a, Len(t.a) - 1)} }) :
           t \in {[s EXCEPT !.min_gallop = IF @ > 1 THEN @ - 1 ELSE @,
                            !.ms_min_gallop = IF s.min_gallop > 1
                                              THEN s.min_gallop - 1
                                              ELSE s.min_gallop]} })

\* the loop of merge_hi that takes one item at a time: the last of a if the
\* last of b is less than it, else the last of b, until a run has won
\* min_gallop times in a row; the merge ends when a is used up or one item
\* of b is left
merge_hi_one(keys, s) ==
    IF KeyLt(keys[s.b[Len(s.b)]], keys[s.a[Len(s.a)]])
    THEN IF Len(s.a) = 1 THEN Merged(s.b \o s.a \o s.out, s)
         ELSE IF s.acount + 1 >= s.min_gallop
         THEN [s EXCEPT !.out = <<s.a[Len(s.a)]>> \o @,
                        !.a = DropLast(@, 1),
                        !.acount = @ + 1, !.bcount = 0,
                        !.min_gallop = @ + 1,
                        !.pc = "gallop"]
         ELSE [s EXCEPT !.out = <<s.a[Len(s.a)]>> \o @,
                        !.a = DropLast(@, 1),
                        !.acount = @ + 1, !.bcount = 0,
                        !.pc = "one"]
    ELSE IF Len(s.b) = 2
         THEN Merged(DropLast(s.b, 1) \o s.a \o Last(s.b, 1) \o s.out, s)
         ELSE IF s.bcount + 1 >= s.min_gallop
         THEN [s EXCEPT !.out = <<s.b[Len(s.b)]>> \o @,
                        !.b = DropLast(@, 1),
                        !.bcount = @ + 1, !.acount = 0,
                        !.min_gallop = @ + 1,
                        !.pc = "gallop"]
         ELSE [s EXCEPT !.out = <<s.b[Len(s.b)]>> \o @,
                        !.b = DropLast(@, 1),
                        !.bcount = @ + 1, !.acount = 0,
                        !.pc = "one"]

\* the loops of merge_hi, rounds of them: the one that takes one item at a
\* time and the galloping one, each followed by the other
RECURSIVE merge_hi_loop(_, _, _)
merge_hi_loop(keys, s, rounds) ==
    IF s.pc = "done" THEN s
    ELSE IF rounds = 1
    THEN IF s.pc = "one" THEN merge_hi_one(keys, s) ELSE merge_hi_gallop(keys, s)
    ELSE Only({ merge_hi_loop(keys, t, rounds - rounds \div 2) :
                t \in {merge_hi_loop(keys, s, rounds \div 2)} })

\* merge_hi: the runs a and b, a longer than b, merged from the right; the
\* last of a goes last
merge_hi(keys, a, b, min_gallop) ==
    Only({ IF Len(s.a) = 0 THEN Merged(s.b \o s.out, s)
           ELSE IF Len(s.b) = 1 THEN Merged(s.b \o s.a \o s.out, s)
           ELSE merge_hi_loop(keys, s, Len(a) + Len(b)) :
           s \in {[a |-> DropLast(a, 1), b |-> b, out |-> <<a[Len(a)]>>,
                   min_gallop |-> min_gallop, ms_min_gallop |-> min_gallop,
                   acount |-> 0, bcount |-> 0, pc |-> "one"]} })

\* the merge of merge_at: the items of a that go before b[0] and the items
\* of b that go after the last of a are in place, the rest is merged by
\* merge_lo or merge_hi
MergeRuns(keys, a, b, min_gallop) ==
    Only({ IF k = Len(a) THEN [run |-> a \o b, min_gallop |-> min_gallop]
           ELSE Only({ IF nb <= 0 THEN [run |-> a \o b, min_gallop |-> min_gallop]
                       ELSE Only({ [run |-> First(a, k) \o m.run \o DropFirst(b, nb),
                                    min_gallop |-> m.min_gallop] :
                                   m \in {IF Len(a) - k <= nb
                                          THEN merge_lo(keys, DropFirst(a, k), First(b, nb),
                                                        min_gallop)
                                          ELSE merge_hi(keys, DropFirst(a, k), First(b, nb),
                                                        min_gallop)} }) :
                       nb \in {gallop_left(keys, a[Len(a)], b, Len(b) - 1)} }) :
           k \in {gallop_right(keys, b[1], a, 0)} })

\* The MergeState ms: a is the array, pending the stack of runs (base, len
\* and power each), min_gallop its field of that name, and lo the offset at
\* which list.sort looks for the next run.

\* merge_at: the runs i and i + 1 of the stack become one run, merged
merge_at(keys, ms, i) ==
    Only({ [a |-> SubSeq(ms.a, 1, ssa.base) \o m.run
                  \o SubSeq(ms.a, ssb.base + ssb.len + 1, Len(ms.a)),
            pending |-> SubSeq(ms.pending, 1, i - 1)
                        \o <<[ssa EXCEPT !.len = ssa.len + ssb.len]>>
                        \o SubSeq(ms.pending, i + 2, Len(ms.pending)),
            min_gallop |-> m.min_gallop, lo |-> ms.lo] :
           ssa \in {ms.pending[i]}, ssb \in {ms.pending[i + 1]},
           m \in {MergeRuns(keys,
                            SubSeq(ms.a, ms.pending[i].base + 1,
                                   ms.pending[i].base + ms.pending[i].len),
                            SubSeq(ms.a, ms.pending[i + 1].base + 1,
                                   ms.pending[i + 1].base + ms.pending[i + 1].len),
                            ms.min_gallop)} })

\* powerloop: the first bit, counted after the point, at which a / n and
\* b / n differ, a and b being twice the midpoints of two runs next to each
\* other
RECURSIVE powerloop(_, _, _, _)
powerloop(a, b, n, power) ==
    IF a >= n THEN powerloop(2 * (a - n), 2 * (b - n), n, power + 1)
    ELSE IF b >= n THEN power + 1
    ELSE powerloop(2 * a, 2 * b, n, power + 1)

\* the loop of found_new_run: runs on the stack are merged while the run
\* under the top has a greater power than the top gets, then the top gets
\* its power
RECURSIVE found_new_run_loop(_, _, _)
found_new_run_loop(keys, ms, power) ==
    IF Len(ms.pending) > 1 /\ ms.pending[Len(ms.pending) - 1].power > power
    THEN Only({ found_new_run_loop(keys, merged, power) :
                merged \in {merge_at(keys, ms, Len(ms.pending) - 1)} })
    ELSE [ms EXCEPT !.pending[Len(ms.pending)].power = power]

\* found_new_run: a run of n2 items follows the run on top of the stack
found_new_run(keys, ms, n2) ==
    IF Len(ms.pending) = 0 THEN ms
    ELSE Only({ found_new_run_loop(keys, ms, power) :
                power \in {powerloop(2 * ms.pending[Len(ms.pending)].base
                                     + ms.pending[Len(ms.pending)].len,
                                     2 * ms.pending[Len(ms.pending)].base
                                     + 2 * ms.pending[Len(ms.pending)].len + n2,
                                     Len(ms.a), 0)} })

\* merge_force_collapse: the runs of the stack are merged until one is left,
\* the last two, or the two before the last when the third from the end is
\* shorter than the last
RECURSIVE merge_force_collapse(_, _)
merge_force_collapse(keys, ms) ==
    IF Len(ms.pending) <= 1 THEN ms
    ELSE Only({ merge_force_collapse(keys, merged) :
                merged \in {merge_at(keys, ms,
                                IF Len(ms.pending) > 2
                                   /\ ms.pending[Len(ms.pending) - 2].len
                                      < ms.pending[Len(ms.pending)].len
                                THEN Len(ms.pending) - 2
                                ELSE Len(ms.pending) - 1)} })

\* the run list.sort finds at offset lo: the natural run, reversed when it
\* descends, and made minrun items long (or as long as what is left) by
\* binarysort when it is shorter
NextRun(keys, a, lo, minrun) ==
    Only({ Only({ IF run.n < minrun
                  THEN [a |-> binarysort(keys, ordered, lo,
                                         lo + Min(Len(a) - lo, minrun), lo + run.n),
                        n |-> Min(Len(a) - lo, minrun)]
                  ELSE [a |-> ordered, n |-> run.n] :
                  ordered \in {IF run.descending THEN reverse_sortslice(a, lo, run.n)
                               ELSE a} }) :
           run \in {count_run(keys, a, lo, Len(a))} })

\* one round of the loop of list.sort: the run found is pushed on the stack
\* after found_new_run has merged what it had to
PushRun(keys, ms, minrun) ==
    Only({ Only({ [merged EXCEPT !.pending = Append(@, [base |-> ms.lo, len |-> run.n,
                                                        power |-> 0]),
                                 !.lo = @ + run.n] :
                  merged \in {found_new_run(keys, [ms EXCEPT !.a = run.a], run.n)} }) :
           run \in {NextRun(keys, ms.a, ms.lo, minrun)} })

\* the loop of list.sort, rounds of it, lo being where the next run starts
RECURSIVE list_sort_loop(_, _, _, _)
list_sort_loop(keys, ms, minrun, rounds) ==
    IF ms.lo >= Len(ms.a) THEN ms
    ELSE IF rounds = 1 THEN PushRun(keys, ms, minrun)
    ELSE Only({ list_sort_loop(keys, pushed, minrun, rounds - rounds \div 2) :
                pushed \in {list_sort_loop(keys, ms, minrun, rounds \div 2)} })

\* list.sort of two items and more: the runs are found and merged, and
\* merge_force_collapse merges what the stack holds at the end
list_sort(keys) ==
    Only({ merge_force_collapse(keys, ms) :
           ms \in {list_sort_loop(keys,
                                  [a |-> <<>> \o [k \in 1..Len(keys) |-> k],
                                   pending |-> <<>>, min_gallop |-> MIN_GALLOP,
                                   lo |-> 0],
                                  merge_compute_minrun(Len(keys), 0), Len(keys))} })

\* the order list.sort leaves items with these keys in, as positions of the
\* unsorted list; a list of fewer than two items is left alone
SortedOrder(keys) ==
    IF Len(keys) < 2 THEN <<>> \o [k \in 1..Len(keys) |-> k]
    ELSE list_sort(keys).a

\* sorted(items, key=...) and items.sort(key=...), keys[i] being the key of
\* items[i]
sorted(items, keys) ==
    Only({ <<>> \o [k \in 1..Len(list) |-> list[order[k]]] :
           list \in {items}, order \in {SortedOrder(<<>> \o keys)} })

\* sort_key without the minus sign
sort_key_ascending(r) ==
    <<IF r.overall_status = "safe" THEN 0 ELSE 1, r.safety_score>>

\* (status_priority, -r["safety_score"]); the lambda of rank_water_sources too
sort_key(r) ==
    <<IF r.overall_status = "safe" THEN 0 ELSE 1, FNeg(r.safety_score)>>

sort_results(results) ==
    sorted(results, [i \in 1..Len(results) |-> sort_key(results[i])])

\* the fields of a ranked source; an exception of the analysis is raised on
RankFields(entry, analysis) ==
    IF "raised" \in DOMAIN analysis THEN analysis ELSE
    [type |-> entry.type,
     available_volume |-> entry.volume,
     overall_status |-> analysis.overall_status,
     safety_score |-> analysis.safety_score]

\* RankItem with the entry analysed at its own volume
RankItemOwnVolume(entry, escalation_levels) ==
    Only({RankFields(entry, analysis) : analysis \in
        {analyze_combination(<< <<entry.type, entry.volume>> >>, escalation_levels)}})

\* the body of the loop of rank_water_sources
RankItem(entry, escalation_levels) ==
    Only({RankFields(entry, analysis) : analysis \in
        {analyze_combination(<< <<entry.type, UNIT_VOLUME>> >>, escalation_levels)}})

\* returns the ranked sources, or raises what an analysis raised
rank_water_sources(water_entries, escalation_levels) ==
    Only({ IF \E i \in 1..Len(ranked) : "raised" \in DOMAIN ranked[i]
           THEN [raised |-> ZeroDivisionError]
           ELSE sorted(ranked, [i \in 1..Len(ranked) |-> sort_key(ranked[i])]) :
           ranked \in {<<>> \o [i \in 1..Len(water_entries) |->
                                  RankItem(water_entries[i], escalation_levels)]} })

\* BuildLoop without remaining -= use_volume
RECURSIVE BuildLoopKeepsNeed(_, _, _, _)
BuildLoopKeepsNeed(ranked_sources, i, selected, remaining) ==
    IF i > Len(ranked_sources) \/ FLeq(remaining, FZERO) THEN <<selected, remaining>>
    ELSE Only({ IF FGt(use_volume, FZERO)
                THEN BuildLoopKeepsNeed(ranked_sources, i + 1,
                         Append(selected, <<source.type, use_volume>>), rest)
                ELSE BuildLoopKeepsNeed(ranked_sources, i + 1, selected, rest) :
                source \in {ranked_sources[i]},
                use_volume \in {FMin(ranked_sources[i].available_volume, remaining)},
                rest \in {remaining} })

\* BuildLoop with use_volume = source["available_volume"], without the min
RECURSIVE BuildLoopTakesAll(_, _, _, _)
BuildLoopTakesAll(ranked_sources, i, selected, remaining) ==
    IF i > Len(ranked_sources) \/ FLeq(remaining, FZERO) THEN <<selected, remaining>>
    ELSE Only({ IF FGt(use_volume, FZERO)
                THEN BuildLoopTakesAll(ranked_sources, i + 1,
                         Append(selected, <<source.type, use_volume>>), rest)
                ELSE BuildLoopTakesAll(ranked_sources, i + 1, selected, remaining) :
                source \in {ranked_sources[i]},
                use_volume \in {ranked_sources[i].available_volume},
                rest \in {FSub(remaining, ranked_sources[i].available_volume)} })

\* the loop of build_blend_from_ranking from source i on
RECURSIVE BuildLoop(_, _, _, _)
BuildLoop(ranked_sources, i, selected, remaining) ==
    IF i > Len(ranked_sources) \/ FLeq(remaining, FZERO) THEN <<selected, remaining>>
    ELSE Only({ IF FGt(use_volume, FZERO)
                THEN BuildLoop(ranked_sources, i + 1,
                         Append(selected, <<source.type, use_volume>>), rest)
                ELSE BuildLoop(ranked_sources, i + 1, selected, remaining) :
                source \in {ranked_sources[i]},
                use_volume \in {FMin(ranked_sources[i].available_volume, remaining)},
                rest \in {FSub(remaining,
                               FMin(ranked_sources[i].available_volume, remaining))} })

\* returns (selected, remaining)
build_blend_from_ranking(ranked_sources, required_volume) ==
    Only({ BuildLoop(ranked, 1, <<>>, required) :
           ranked \in {ranked_sources}, required \in {required_volume} })

\* The rates of SLUDGE_PRODUCTION_KG_PER_M3 as the source writes them, in
\* ten-thousandths (0.26 is 2600, 0.0015 is 15).
SLUDGE_CELLS ==
    [type \in {"Yeo Valley (Final Effluent)"} |-> 3000]
    @@ [type \in {"RAIN WATER"} |-> 15]
    @@ [type \in {"TAP WATER (CARDIFF)"} |-> 230]
    @@ [type \in {"FINAL SEWAGE EFFLUENT"} |-> 2600]
    @@ [type \in {"DISTILLED WATER"} |-> 0]
    @@ [type \in {"CRUDE SEWAGE"} |-> 6000]
    @@ [type \in {"ANY SEWAGE"} |-> 3500]
    @@ [type \in {"ANY TRADE EFFLUENT"} |-> 4000]
    @@ [type \in {"TRADE EFFLUENT - FRESHWATER RETURNED ABSTRACTED"} |-> 2200]
    @@ [type \in {"STORM SEWER OVERFLOW DISCHARGE"} |-> 1800]
    @@ [type \in {"SURFACE DRAINAGE"} |-> 500]
    @@ [type \in {"ANY LEACHATE"} |-> 9000]
    @@ [type \in {"GROUNDWATER - PURGED/PUMPED/REFILLED"} |-> 100]
    @@ [type \in {"MINEWATER"} |-> 800]
    @@ [type \in {"CANAL WATER"} |-> 300]

\* SLUDGE_PRODUCTION_KG_PER_M3, in kg per m3
SLUDGE_PRODUCTION_KG_PER_M3 ==
    [type \in DOMAIN SLUDGE_CELLS |-> FDec(SLUDGE_CELLS[type], 10000)]

\* SLUDGE_PRODUCTION_KG_PER_M3.get(water_type)
SludgeRate(water_type) ==
    IF water_type \in DOMAIN SLUDGE_PRODUCTION_KG_PER_M3
    THEN SLUDGE_PRODUCTION_KG_PER_M3[water_type] ELSE None

\* SludgeItem with an unknown rate counted as a rate of 0
SludgeItemUnknownAsZero(water_type, volume) ==
    LET rate == IF SludgeRate(water_type) = None THEN FZERO ELSE SludgeRate(water_type)
    IN  [water_type |-> water_type, volume_l |-> volume, rate_kg_m3 |-> rate,
         sludge_kg |-> FMul(FDiv(volume, FInt(1000)), rate)]

\* the breakdown item of one source: (volume / 1000.0) * rate, or None
\* without a rate
SludgeItem(water_type, volume) ==
    LET rate == SludgeRate(water_type)
    IN  IF rate = None
        THEN [water_type |-> water_type, volume_l |-> volume, rate_kg_m3 |-> None,
              sludge_kg |-> None]
        ELSE [water_type |-> water_type, volume_l |-> volume, rate_kg_m3 |-> rate,
              sludge_kg |-> FMul(FDiv(volume, FInt(1000)), rate)]

\* the loop of calculate_sludge_kg from source i on
RECURSIVE SludgeLoop(_, _, _, _)
SludgeLoop(water_sources, i, total_sludge, breakdown) ==
    IF i > Len(water_sources) THEN <<total_sludge, breakdown>>
    ELSE Only({ Only({ SludgeLoop(water_sources, i + 1, total, Append(breakdown, item)) :
                       total \in {IF item.rate_kg_m3 = None THEN total_sludge
                                  ELSE FAdd(total_sludge, item.sludge_kg)} }) :
                item \in {SludgeItem(water_sources[i][1], water_sources[i][2])} })

\* calculate_sludge_kg(water_sources): (total_sludge, breakdown)
calculate_sludge_kg(water_sources) ==
    Only({ SludgeLoop(sources, 1, FZERO, <<>>) : sources \in {water_sources} })

----------------------------------------------------------------------------
(* The page: the volumes asked for a hydrogen target, the analysis run by   *)
(* "Find Optimal Blend" and the recipe shown for what it stored.            *)

\* None in the place of a water type: an entry whose select box shows
\* "-- Select Water Type --"
NoType == "-- Select Water Type --"

\* {"type": None, "volume": None}, a row of the form left blank
BlankEntry == [type |-> NoType, volume |-> None]

\* water_type_options: the water types of the reference table
water_type_options == DOMAIN WATER_TYPE_CONCENTRATIONS

\* available_options of row i: "-- Select Water Type --" and the water types
\* that no other row holds
available_options(entries, i) ==
    {NoType} \cup {t \in water_type_options :
                      \A j \in 1..Len(entries) : j # i => entries[j].type # t}

\* the loop over the rows of the form, from row i on: the select box of a row
\* returns one of its available_options and the number_input, with
\* min_value=0.0, nothing or a volume of 0 or more; what they return is stored
\* in the entry before the next row is drawn.  TRUE when the widgets can
\* return `widgets` in a run that finds `entries` stored; the entries are
\* `widgets` after such a run.
RECURSIVE EntryForm(_, _, _)
EntryForm(entries, widgets, i) ==
    IF i > Len(entries) THEN TRUE
    ELSE /\ widgets[i].type \in available_options(entries, i)
         /\ IF widgets[i].volume = None THEN TRUE
            ELSE FGeq(widgets[i].volume, FZERO)
         /\ EntryForm([entries EXCEPT ![i] = widgets[i]], widgets, i + 1)

\* what the rows can return in the run of a click on "Find Optimal Blend",
\* which finds the widgets as the run before left them: the entries stored,
\* except that a stored volume of 0.0 is handed to st.number_input as
\* value=None, and the widget then returns the 0.0 it holds or, where
\* Streamlit takes it for a new widget, nothing
ClickWidgets(entries) ==
    { <<>> \o [i \in 1..Len(entries) |->
                 IF i \in emptied THEN [entries[i] EXCEPT !.volume = None]
                 ELSE entries[i]] :
      emptied \in SUBSET {i \in 1..Len(entries) :
                             IF entries[i].volume = None THEN FALSE
                             ELSE FEq(entries[i].volume, FZERO)} }

\* st.session_state.water_entries.pop(i), rows counted from 1
pop(entries, i) == SubSeq(entries, 1, i - 1) \o SubSeq(entries, i + 1, Len(entries))

\* total_electrolyte_required = round(h2_target * ELECTROLYTE_PER_KG_H2, 1)
total_electrolyte_required(h2_target) ==
    FRound1(FMul(h2_target, ELECTROLYTE_PER_KG_H2))

\* water_required_raw = total_electrolyte_required * B9_DILUTION_FACTOR;
\* water_required = round(water_required_raw, 1)
water_required(h2_target) ==
    FRound1(FMul(total_electrolyte_required(h2_target), B9_DILUTION_FACTOR))

\* b9_required = round(total_electrolyte_required - water_required, 1)
b9_required(h2_target) ==
    FRound1(FSub(total_electrolyte_required(h2_target), water_required(h2_target)))

\* e["volume"] or 0
VolumeOrZero(e) == IF e.volume = None THEN FZERO ELSE e.volume

\* e["type"] is not None and (e["volume"] or 0) > 0
ValidEntry(e) == e.type # NoType /\ FGt(VolumeOrZero(e), FZERO)

\* sum(e["volume"] or 0 for e in valid_entries), added from the left
RECURSIVE TotalVolume(_, _, _)
TotalVolume(entries, i, acc) ==
    IF i > Len(entries) THEN acc
    ELSE Only({ TotalVolume(entries, i + 1, next) :
                next \in {FAdd(acc, VolumeOrZero(entries[i]))} })

\* the results of the analysis block with the blend analysed whatever is
\* still missing
BlendResultsIgnoringShortfall(selected_sources, remaining_volume, escalation_levels) ==
    << [water_sources |-> selected_sources]
       @@ analyze_combination(selected_sources, escalation_levels) >>

\* results: the analysis of the selected sources, with them as water_sources,
\* when no more than 1e-6 L is missing
BlendResults(selected_sources, remaining_volume, escalation_levels) ==
    IF FLeq(remaining_volume, EPSILON)
    THEN << [water_sources |-> selected_sources]
            @@ analyze_combination(selected_sources, escalation_levels) >>
    ELSE <<>>

\* valid_entries: the entries with a water type and a volume above 0
valid_entries(entries) == SelectSeq(entries, ValidEntry)

\* the dictionary the analysis block stores for its valid entries (there is
\* at least one): the results, the volume available and the volumes asked
AnalysisData(valid, escalation_levels, target) ==
    Only({ [results |-> BlendResults(built[1], built[2], escalation_levels),
            total_available |-> TotalVolume(valid, 1, FZERO),
            water_required |-> required,
            electrolyte_required |-> total_electrolyte_required(target),
            b9_required |-> b9_required(target),
            h2_target |-> target] :
           built \in {build_blend_from_ranking(
                         rank_water_sources(valid, escalation_levels),
                         water_required(target))},
           required \in {water_required(target)} })

\* the lines "{volume:.1f} L - {water_type}" of Step 1: the tenths of a litre
\* printed, and the water type
Ingredients(water_sources) ==
    <<>> \o [k \in 1..Len(water_sources) |->
                <<NatInt(Tenths(water_sources[k][2])), water_sources[k][1]>>]

\* what the page shows for the stored analysis_results: the banner, the
\* ingredient lines of Step 1, the third step of the recipe and the distilled
\* water it asks for
Display(analysis_results) ==
    IF analysis_results = <<>>
    THEN [banner |-> "none", ingredients |-> <<>>, step3 |-> "none",
          distilled_water_needed |-> FZERO]
    ELSE LET data == analysis_results[1]
         IN  IF FLt(FAdd(data.total_available, EPSILON), data.water_required)
             THEN [banner |-> "Insufficient Water Available", ingredients |-> <<>>,
                   step3 |-> "none", distilled_water_needed |-> FZERO]
             ELSE IF Len(data.results) = 0
             THEN [banner |-> "No Valid Blend Found", ingredients |-> <<>>,
                   step3 |-> "none", distilled_water_needed |-> FZERO]
             ELSE LET best_result == data.results[1]
                      needs_dilution == FGt(best_result.required_dilution, FONE)
                  IN  [banner |-> IF best_result.overall_status = "safe"
                                  THEN "Safe Blend Found" ELSE "Dilution Required",
                       ingredients |-> Ingredients(best_result.water_sources),
                       step3 |-> IF needs_dilution THEN "Dilute to safe limits"
                                 ELSE "No dilution needed",
                       distilled_water_needed |->
                           IF needs_dilution
                           THEN FMul(data.electrolyte_required,
                                     FSub(best_result.required_dilution, FONE))
                           ELSE FZERO]

----------------------------------------------------------------------------
(* Inputs of the calls.                                                    *)

\* the float of a volume typed in litres with one decimal, from its tenths
L(tenths) == FDec(tenths, 10)

\* the largest power of two among the doubles, 8.98846567431158e+307 L
HUGE == FPow2(1023)

\* the least positive double, 5e-324 L
TINY == FPow2(MIN_EXP)

\* 253 * 2^-1071 L, the double of 1e-320
SUBNORMAL == FMul(FInt(253), FPow2(-1071))

\* at most this many (water type, volume) pairs in a call
MaxSources == 3

SeqUpTo(S, n) == UNION {[1..k -> S] : k \in 0..n}

\* the (water type, volume) pairs the calls draw from: no contaminant
\* (0.3 L, not a double), mildly and heavily contaminated water and a volume
\* of 0
InputPairs ==
    {<<"DISTILLED WATER", L(3)>>, <<"MINEWATER", L(10)>>,
     <<"CRUDE SEWAGE", L(10)>>, <<"CRUDE SEWAGE", L(0)>>}

InputSources == SeqUpTo(InputPairs, MaxSources)

\* at most this many entries {"type": ..., "volume": ...} in a call that
\* ranks, fills or sorts
MaxEntries == 3

\* the entries that are filled from: the three kinds of water, with
\* volumes that are no doubles (0.3, 0.6), and an empty source of the unsafe
\* kind
InputEntries ==
    SeqUpTo({[type |-> "DISTILLED WATER", volume |-> L(6)],
             [type |-> "MINEWATER", volume |-> L(3)],
             [type |-> "CRUDE SEWAGE", volume |-> L(0)],
             [type |-> "CRUDE SEWAGE", volume |-> L(10)]}, MaxEntries)

\* the entries that are ranked: unsafe water entered with and without a
\* volume, and safe water
RankEntries ==
    SeqUpTo({[type |-> "CRUDE SEWAGE", volume |-> L(10)],
             [type |-> "CRUDE SEWAGE", volume |-> L(0)],
             [type |-> "MINEWATER", volume |-> L(3)]}, MaxEntries)

\* the entries whose combinations are analysed and sorted
SortEntries ==
    SeqUpTo({[type |-> "CRUDE SEWAGE", volume |-> L(10)],
             [type |-> "DISTILLED WATER", volume |-> L(3)],
             [type |-> "DISTILLED WATER", volume |-> L(20)]}, MaxEntries)

\* at most this many entries in a call of get_all_combinations, drawn from
\* three entries so that a list can hold the same entry twice
MaxComboEntries == 5

ComboEntries ==
    SeqUpTo({[type |-> "DISTILLED WATER", volume |-> L(10)],
             [type |-> "CRUDE SEWAGE", volume |-> L(10)],
             [type |-> "CRUDE SEWAGE", volume |-> L(20)]}, MaxComboEntries)

\* the volumes asked of the greedy fill, in litres: nothing, less than one
\* source, what two sources hold together, more than two hold, more than any
\* list holds
InputRequired == {L(0), L(5), L(9), L(16), L(40)}

\* fills of their own, (entries, required volume): 8.8 L asked of 5.0 L and
\* 3.8 L, alone and followed by unsafe water, and fills with the largest and
\* the smallest volumes
ExampleFills ==
    {<< << [type |-> "DISTILLED WATER", volume |-> L(50)],
           [type |-> "RAIN WATER", volume |-> L(38)] >>, L(88) >>,
     << << [type |-> "DISTILLED WATER", volume |-> L(50)],
           [type |-> "RAIN WATER", volume |-> L(38)],
           [type |-> "CRUDE SEWAGE", volume |-> L(100)] >>, L(88) >>,
     << << [type |-> "DISTILLED WATER", volume |-> HUGE],
           [type |-> "MINEWATER", volume |-> FPow2(1022)] >>,
        FAdd(HUGE, FPow2(1022)) >>,
     << << [type |-> "DISTILLED WATER", volume |-> HUGE],
           [type |-> "MINEWATER", volume |-> HUGE] >>, HUGE >>,
     << << [type |-> "DISTILLED WATER", volume |-> TINY],
           [type |-> "MINEWATER", volume |-> TINY] >>, FMul(FInt(3), TINY) >>,
     << << [type |-> "DISTILLED WATER", volume |-> SUBNORMAL],
           [type |-> "MINEWATER", volume |-> L(5)],
           [type |-> "CRUDE SEWAGE", volume |-> HUGE] >>, L(10) >>}

\* the (entries, required volume) of the calls of the greedy fill
InputFills == (InputEntries \X InputRequired) \cup ExampleFills

\* the shipped table with two cells of CRUDE SEWAGE blanked: Bromide without
\* a value (None) and Iodide without an entry ("None values treated as 0")
TableWithGaps ==
    [WATER_TYPE_CONCENTRATIONS EXCEPT !["CRUDE SEWAGE"] =
        [a \in (DOMAIN @) \ {"Iodide"} |-> IF a = "Bromide" THEN None ELSE @[a]]]

\* analytes of the table, the two blanked in TableWithGaps among them, and
\* one the table does not know
InputAnalytes == {"Chloride", "Bromide", "Iodide", "Fluoride"}

\* the (table, analyte) of the calls of calculate_blend_concentration: the
\* shipped table with every analyte, the table with gaps where it differs
InputLookups ==
    ({WATER_TYPE_CONCENTRATIONS} \X InputAnalytes)
    \cup ({TableWithGaps} \X {"Bromide", "Iodide"})

\* sources of their own, with volumes at the ends of the range of a double:
\* a mass that overflows, a mass and a volume that overflow, a volume that
\* overflows under a finite mass, masses rounded to a multiple of 2^-1074,
\* and a blend with a subnormal concentration
ExtremeSources ==
    {<< <<"CRUDE SEWAGE", HUGE>> >>,
     << <<"CRUDE SEWAGE", HUGE>>, <<"RAIN WATER", HUGE>> >>,
     << <<"MINEWATER", HUGE>>, <<"MINEWATER", HUGE>> >>,
     << <<"RAIN WATER", TINY>> >>,
     << <<"CRUDE SEWAGE", SUBNORMAL>>, <<"DISTILLED WATER", FONE>> >>,
     << <<"CANAL WATER", L(2278)>>, <<"SURFACE DRAINAGE", FPow2(-1014)>> >>}

\* the analytes looked up in them
ExtremeAnalytes == {"Chloride", "Ammonium", "Cyanide", "Iodide"}

\* the ((table, analyte), water_sources) of the calls of
\* calculate_blend_concentration
InputBlends ==
    (InputLookups \X InputSources)
    \cup (({WATER_TYPE_CONCENTRATIONS} \X ExtremeAnalytes) \X ExtremeSources)

\* A profile whose thresholds put MINEWATER's Sulphide and Cyanide at the
\* same margin.
TieProfile == Profile(<< <<"Sulphide", 40>>, <<"Cyanide", 20>> >>)

\* A profile that MINEWATER exceeds by the same factor on two analytes.
OverProfile == Profile(<< <<"Cyanide", 2>>, <<"Sulphide", 4>> >>)

\* A profile whose Chloride threshold is met exactly by CRUDE SEWAGE diluted
\* 1:2 (180 / 3 * 0.7 = 42.0), followed by an analyte the table does not know.
BoundaryProfile == Profile(<< <<"Chloride", 42000>>, <<"Fluoride", 1500>> >>)

InputProfiles == {ALKALINE_ESCALATION_LEVELS, TieProfile, OverProfile}

\* the profiles under which entries are ranked
RankProfiles == {ALKALINE_ESCALATION_LEVELS, BoundaryProfile}

\* the sources whose sludge is computed: 1000 L at 0.26 kg/m3, 500 L of a
\* water type without a rate, a rate of 0.0, a volume of 0 and small volumes,
\* and lists of the largest and of the smallest volumes
SludgeSources ==
    SeqUpTo({<<"FINAL SEWAGE EFFLUENT", L(10000)>>, <<"UNLISTED WATER", L(5000)>>,
             <<"DISTILLED WATER", L(20)>>, <<"MINEWATER", L(3)>>,
             <<"CRUDE SEWAGE", L(0)>>}, MaxSources)
    \cup {<< <<"CRUDE SEWAGE", HUGE>>, <<"ANY LEACHATE", HUGE>> >>,
          << <<"CRUDE SEWAGE", TINY>>, <<"ANY LEACHATE", SUBNORMAL>> >>}

\* the hydrogen targets of the page, in kg: 8.8 L and 26.5 L of water
InputTargets == {FInt(1), FInt(3)}

\* the forms of the page, a list of entries each: the blank form of a new
\* session, a type without a volume, a list with a volume of 0 and a row
\* without a water type, safe water short of 8.8 L and of 26.5 L, alone and
\* before unsafe water, unsafe water before safe water, two kinds of sewage
\* that hold the volume asked each, the largest and the smallest volumes,
\* and the list with the volume of 0 gone
PageEntries ==
    {<<BlankEntry>>,
     << [type |-> "TAP WATER (CARDIFF)", volume |-> None] >>,
     << [type |-> "CRUDE SEWAGE", volume |-> SUBNORMAL] >>,
     << [type |-> "DISTILLED WATER", volume |-> L(50)],
        [type |-> "RAIN WATER", volume |-> L(38)] >>,
     << [type |-> "RAIN WATER", volume |-> L(38)],
        [type |-> "CRUDE SEWAGE", volume |-> L(100)] >>,
     << [type |-> "ANY SEWAGE", volume |-> L(265)],
        [type |-> "CANAL WATER", volume |-> L(265)] >>,
     << [type |-> "DISTILLED WATER", volume |-> TINY],
        [type |-> "RAIN WATER", volume |-> HUGE] >>,
     << [type |-> "RAIN WATER", volume |-> HUGE],
        [type |-> "CRUDE SEWAGE", volume |-> HUGE] >>,
     << [type |-> "DISTILLED WATER", volume |-> L(50)],
        [type |-> "RAIN WATER", volume |-> L(38)],
        [type |-> "CRUDE SEWAGE", volume |-> L(100)] >>,
     << [type |-> "CRUDE SEWAGE", volume |-> L(100)],
        [type |-> "RAIN WATER", volume |-> L(38)],
        [type |-> "DISTILLED WATER", volume |-> L(50)] >>,
     << [type |-> "DISTILLED WATER", volume |-> L(50)],
        [type |-> "MINEWATER", volume |-> L(0)],
        [type |-> NoType, volume |-> L(50)] >>,
     << [type |-> "DISTILLED WATER", volume |-> L(50)],
        [type |-> "MINEWATER", volume |-> None],
        [type |-> NoType, volume |-> L(50)] >>}

\* the profiles the pH selector offers
PageProfiles ==
    {ALKALINE_ESCALATION_LEVELS, NEUTRAL_ESCALATION_LEVELS, ACIDIC_ESCALATION_LEVELS}

\* combinations of their own, each with its profile: 50 L of CRUDE SEWAGE
\* with 50 L of RAIN WATER, CRUDE SEWAGE diluted 1:2, blends whose worst
\* analyte sits at its threshold or within a rounding of it, and a blend with
\* two analytes at the same margin
ExampleAnalyses ==
    {<< << <<"CRUDE SEWAGE", L(500)>>, <<"RAIN WATER", L(500)>> >>,
        ALKALINE_ESCALATION_LEVELS >>,
     << << <<"CRUDE SEWAGE", L(10)>>, <<"DISTILLED WATER", L(20)>> >>,
        BoundaryProfile >>,
     << << <<"DISTILLED WATER", L(120)>>, <<"CRUDE SEWAGE", L(125)>> >>,
        ALKALINE_ESCALATION_LEVELS >>,
     << << <<"CRUDE SEWAGE", L(25)>>, <<"DISTILLED WATER", L(24)>> >>,
        ALKALINE_ESCALATION_LEVELS >>,
     << << <<"CANAL WATER", L(15)>>, <<"FINAL SEWAGE EFFLUENT", L(6)>> >>,
        ACIDIC_ESCALATION_LEVELS >>,
     << << <<"CANAL WATER", L(295)>>, <<"FINAL SEWAGE EFFLUENT", L(118)>> >>,
        ACIDIC_ESCALATION_LEVELS >>,
     << << <<"GROUNDWATER - PURGED/PUMPED/REFILLED", L(10)>>,
           <<"FINAL SEWAGE EFFLUENT", L(10)>> >>,
        ACIDIC_ESCALATION_LEVELS >>,
     << << <<"CRUDE SEWAGE", L(10)>> >>, ACIDIC_ESCALATION_LEVELS >>}

\* the (water_sources, escalation_levels) of the calls of analyze_combination
InputAnalyses ==
    (InputSources \X InputProfiles) \cup ExampleAnalyses
    \cup (ExtremeSources \X {ALKALINE_ESCALATION_LEVELS, ACIDIC_ESCALATION_LEVELS})

\* lists of results that analyze_combination returned: the analysis of each
\* combination of some entries, with its water_sources
AnalysedCombinations(water_entries, escalation_levels) ==
    Only({ <<>> \o [k \in 1..Len(combos) |->
                       [water_sources |-> combos[k]]
                       @@ analyze_combination(combos[k], escalation_levels)] :
           combos \in {get_all_combinations(water_entries, MAX_COMBINATION_SIZE)} })

AnalysedResults ==
    {AnalysedCombinations(water_entries, BoundaryProfile) : water_entries \in SortEntries}

\* lists of results of their own: a status and a score each, scores that are
\* equal, scores that descend and ascend, and the score nan
ScoredResults ==
    SeqUpTo({[overall_status |-> "safe", safety_score |-> FInt(2)],
             [overall_status |-> "safe", safety_score |-> FONE],
             [overall_status |-> "safe", safety_score |-> FNAN],
             [overall_status |-> "escalation", safety_score |-> FDec(1, 2)],
             [overall_status |-> "escalation", safety_score |-> FNAN]}, MaxEntries)

\* lists long enough for list.sort to cut them into runs and merge these:
\* LongLen results in an order that neither ascends nor descends for long,
\* with scores that are equal among them, once with the score nan and once
\* without
LongLen == 70
LongResults ==
    { <<>> \o [k \in 1..LongLen |-> scores[((k * k + k \div 3) % 5) + 1]] :
      scores \in {<<[overall_status |-> "safe", safety_score |-> FInt(2)],
                    [overall_status |-> "escalation", safety_score |-> FDec(1, 2)],
                    [overall_status |-> "safe", safety_score |-> FONE],
                    [overall_status |-> "safe", safety_score |-> FInt(2)],
                    [overall_status |-> "escalation", safety_score |-> FONE]>>,
                  <<[overall_status |-> "safe", safety_score |-> FInt(2)],
                    [overall_status |-> "escalation", safety_score |-> FNAN],
                    [overall_status |-> "safe", safety_score |-> FONE],
                    [overall_status |-> "safe", safety_score |-> FNAN],
                    [overall_status |-> "escalation", safety_score |-> FONE]>>} }

\* the results of the calls of sort_results
InputResults == AnalysedResults \cup ScoredResults \cup LongResults

\* the block run when "Find Optimal Blend" is clicked: what it leaves in
\* st.session_state.analysis_results, which is what the session holds from
\* the clicks before when no entry is valid (a warning is all that happens),
\* and the dictionary of this click otherwise
AnalysisBlock(entries, escalation_levels, target, stored) ==
    Only({ IF Len(valid) = 0 THEN stored
           ELSE <<AnalysisData(valid, escalation_levels, target)>> :
           valid \in {valid_entries(entries)} })

----------------------------------------------------------------------------
(* The state machines.  Spec is the engine: its functions are called one   *)
(* at a time, and the session of the page is left alone.  PageSpec is a    *)
(* session of the page: every step is what the script does, from a widget  *)
(* changed or a button clicked to the page shown.  A run of the script     *)
(* stores the target, stores in every entry what the widgets of its row    *)
(* return, runs the handler of the button clicked and shows the analysis   *)
(* the session holds.  What the widgets return is the user's and           *)
(* Streamlit's to decide: after a change of widgets, and when the rows are *)
(* drawn for a list that a handler has changed, it is an input of the run; *)
(* a click on "Find Optimal Blend" finds the widgets as the run before     *)
(* left them, and they return what is stored, or nothing for a volume of   *)
(* 0.0 stored.                                                             *)

\* the session as the first lines of the script create it, no call made
Init ==
    /\ reference = WATER_TYPE_CONCENTRATIONS
    /\ call = "idle"
    /\ args = <<>>
    /\ result = <<>>
    /\ session_state = [water_entries |-> <<BlankEntry>>,
                        analysis_results |-> <<>>,
                        h2_target |-> FONE]

\* calculate_blend_concentration(water_sources, analyte), under either table
CallBlendConcentration ==
    /\ call = "idle"
    /\ \E blend \in InputBlends :
        /\ reference' = blend[1][1]
        /\ call' = "calculate_blend_concentration"
        /\ args' = [water_sources |-> blend[2], analyte |-> blend[1][2]]
        /\ result' = calculate_blend_concentration(blend[2], blend[1][2])'
    /\ UNCHANGED session_state

\* analyze_combination(water_sources, escalation_levels)
CallAnalyzeCombination ==
    /\ call = "idle"
    /\ \E analysis \in InputAnalyses :
        /\ call' = "analyze_combination"
        /\ args' = [water_sources |-> analysis[1], escalation_levels |-> analysis[2]]
        /\ result' = analyze_combination(analysis[1], analysis[2])
    /\ UNCHANGED <<reference, session_state>>

\* get_all_combinations(water_entries, max_size)
CallGetAllCombinations ==
    /\ call = "idle"
    /\ \E water_entries \in ComboEntries, max_size \in 0..MAX_COMBINATION_SIZE :
        /\ call' = "get_all_combinations"
        /\ args' = [water_entries |-> water_entries, max_size |-> max_size]
        /\ result' = get_all_combinations(water_entries, max_size)
    /\ UNCHANGED <<reference, session_state>>

\* sort_results(results)
CallSortResults ==
    /\ call = "idle"
    /\ \E results \in InputResults :
        /\ call' = "sort_results"
        /\ args' = [results |-> results]
        /\ result' = sort_results(results)
    /\ UNCHANGED <<reference, session_state>>

\* rank_water_sources(water_entries, escalation_levels)
CallRankWaterSources ==
    /\ call = "idle"
    /\ \E water_entries \in RankEntries, escalation_levels \in RankProfiles :
        /\ call' = "rank_water_sources"
        /\ args' = [water_entries |-> water_entries,
                    escalation_levels |-> escalation_levels]
        /\ result' = rank_water_sources(water_entries, escalation_levels)
    /\ UNCHANGED <<reference, session_state>>

\* build_blend_from_ranking(ranked_sources, required_volume), the ranked
\* sources being what rank_water_sources returns
CallBuildBlendFromRanking ==
    /\ call = "idle"
    /\ \E fill \in InputFills :
        \E ranked_sources \in {rank_water_sources(fill[1], BoundaryProfile)} :
            /\ call' = "build_blend_from_ranking"
            /\ args' = [ranked_sources |-> ranked_sources, required_volume |-> fill[2]]
            /\ result' = build_blend_from_ranking(ranked_sources, fill[2])
    /\ UNCHANGED <<reference, session_state>>

\* calculate_sludge_kg(water_sources)
CallCalculateSludgeKg ==
    /\ call = "idle"
    /\ \E water_sources \in SludgeSources :
        /\ call' = "calculate_sludge_kg"
        /\ args' = [water_sources |-> water_sources]
        /\ result' = calculate_sludge_kg(water_sources)
    /\ UNCHANGED <<reference, session_state>>

\* the call returns; the shipped table is in place again
Return ==
    /\ call # "idle"
    /\ reference' = WATER_TYPE_CONCENTRATIONS
    /\ call' = "idle"
    /\ args' = <<>>
    /\ result' = <<>>
    /\ UNCHANGED session_state

Next ==
    \/ CallBlendConcentration
    \/ CallAnalyzeCombination
    \/ CallGetAllCombinations
    \/ CallSortResults
    \/ CallRankWaterSources
    \/ CallBuildBlendFromRanking
    \/ CallCalculateSludgeKg
    \/ Return

Spec == Init /\ [][Next]_vars

\* the end of a run of the script: the session as the run leaves it and the
\* page it shows, with the warning of the analysis block when the click found
\* no valid entry
Shown(entries, stored, target, warned) ==
    /\ session_state' = [water_entries |-> entries,
                         analysis_results |-> stored,
                         h2_target |-> target]
    /\ result' = [analysis_results |-> stored,
                  display |-> Display(stored),
                  warning |-> warned]
    /\ UNCHANGED reference

\* widgets changed (the target, the pH type, water types, volumes): the
\* script runs with no button clicked, stores what they return and shows the
\* analysis of the last click that stored one
Rerun ==
    \E widgets \in PageEntries, target \in InputTargets :
        /\ Len(widgets) = Len(session_state.water_entries)
        /\ EntryForm(session_state.water_entries, widgets, 1)
        /\ call' = "rerun"
        /\ args' = <<>>
        /\ Shown(widgets, session_state.analysis_results, target, FALSE)

\* "X" clicked in row i, which has the button when there are two rows or
\* more: the entry is popped and the script runs again
RemoveEntry ==
    \E i \in 1..Len(session_state.water_entries), widgets \in PageEntries :
        /\ Len(session_state.water_entries) > 1
        /\ Len(widgets) = Len(session_state.water_entries) - 1
        /\ EntryForm(pop(session_state.water_entries, i), widgets, 1)
        /\ call' = "rerun"
        /\ args' = <<>>
        /\ Shown(widgets, session_state.analysis_results, session_state.h2_target, FALSE)

\* "+ Add Water Source" clicked: a blank entry is appended and the script
\* runs again
AddWaterSource ==
    \E widgets \in PageEntries :
        /\ Len(widgets) = Len(session_state.water_entries) + 1
        /\ EntryForm(Append(session_state.water_entries, BlankEntry), widgets, 1)
        /\ call' = "rerun"
        /\ args' = <<>>
        /\ Shown(widgets, session_state.analysis_results, session_state.h2_target, FALSE)

\* "Clear All" clicked: one blank entry and no analysis are left, and the
\* script runs again
ClearAll ==
    \E widgets \in PageEntries :
        /\ Len(widgets) = 1
        /\ EntryForm(<<BlankEntry>>, widgets, 1)
        /\ call' = "rerun"
        /\ args' = <<>>
        /\ Shown(widgets, <<>>, session_state.h2_target, FALSE)

\* "Find Optimal Blend" clicked: the rows store what their widgets return,
\* the analysis block runs on the entries, under the profile of the pH type
\* selected, and the page shows what the session holds after it
FindOptimalBlend ==
    \E escalation_levels \in PageProfiles,
       widgets \in ClickWidgets(session_state.water_entries) :
        /\ call' = "find_optimal_blend"
        /\ args' = [water_entries |-> widgets,
                    escalation_levels |-> escalation_levels,
                    h2_target |-> session_state.h2_target]
        /\ Shown(widgets,
                 AnalysisBlock(widgets, escalation_levels, session_state.h2_target,
                               session_state.analysis_results),
                 session_state.h2_target,
                 Len(valid_entries(widgets)) = 0)

PageNext ==
    \/ Rerun
    \/ RemoveEntry
    \/ AddWaterSource
    \/ ClearAll
    \/ FindOptimalBlend

PageSpec == Init /\ [][PageNext]_vars

----------------------------------------------------------------------------
(* The claims.                                                             *)

\* f[1] + ... + f[n] in floats, added from the left as Python's sum does
SumTo(f, n) ==
    LET s[k \in 0..n] == IF k = 0 THEN FZERO ELSE FAdd(s[k - 1], f[k])
    IN  s[n]

\* the concentration the table gives, 0.0 where it gives none
KnownOrZero(water_type, analyte) ==
    LET row == reference[water_type]
    IN  IF analyte \in DOMAIN row /\ row[analyte] # None THEN row[analyte] ELSE FZERO

\* C1: calculate_blend_concentration returns sum(concentration * volume) /
\* sum(volume), a missing or None concentration counting as 0 in the
\* numerator and its volume still counting in the denominator; with total
\* volume 0 it returns 0.
C1_BlendIsWeightedAverage ==
    call = "calculate_blend_concentration" =>
        \A ws \in {args.water_sources} :
            \A mass \in {SumTo([k \in 1..Len(ws) |->
                                   FMul(KnownOrZero(ws[k][1], args.analyte), ws[k][2])],
                               Len(ws))},
               volume \in {SumTo([k \in 1..Len(ws) |-> ws[k][2]], Len(ws))} :
                IF FEq(volume, FZERO) THEN result = FZERO
                ELSE result = FDiv(mass, volume)

\* a blend of a source whose Bromide is None with one whose Bromide is known:
\* (0 * 1.0 + 0.101 * 1.0) / 2.0 = 0.0505
C1_Witness ==
    /\ call = "calculate_blend_concentration"
    /\ reference = TableWithGaps
    /\ args.analyte = "Bromide"
    /\ args.water_sources = << <<"CRUDE SEWAGE", L(10)>>, <<"MINEWATER", L(10)>> >>
    /\ result = FDec(505, 10000)

\* the (analyte, threshold) items of the profile analysed, and their results
Levels == args.escalation_levels
Items == 1..Len(Levels)
AnalyteOf(i) == Levels[i][1]
LimitOf(i) == Levels[i][2]
EntryOf(i) == result.analyte_results[AnalyteOf(i)]
FinalOf(i) == EntryOf(i).final_concentration

\* C2: for every analyte of the profile, final_concentration is
\* blend_concentration times 0.7, and status is 'escalation' exactly when
\* final_concentration >= threshold, 'safe' otherwise.
C2_FinalAndStatus ==
    call = "analyze_combination" =>
        /\ DOMAIN result.analyte_results = {AnalyteOf(i) : i \in Items}
        /\ \A i \in Items :
            \A e \in {EntryOf(i)} :
                /\ e.blend_concentration
                     = calculate_blend_concentration(args.water_sources, AnalyteOf(i))
                /\ e.escalation_level = LimitOf(i)
                /\ e.final_concentration = FMul(e.blend_concentration, FDec(7, 10))
                /\ e.status = IF FGeq(e.final_concentration, LimitOf(i))
                              THEN "escalation" ELSE "safe"

\* CRUDE SEWAGE diluted 1:2 has Chloride 60.0, final 42.0: exactly the
\* threshold of BoundaryProfile, and the status is 'escalation'
C2_Witness ==
    /\ call = "analyze_combination"
    /\ args.escalation_levels = BoundaryProfile
    /\ args.water_sources = << <<"CRUDE SEWAGE", L(10)>>, <<"DISTILLED WATER", L(20)>> >>
    /\ result.analyte_results["Chloride"].final_concentration = FInt(42)
    /\ result.analyte_results["Chloride"].status = "escalation"

\* C3: overall_status is 'escalation' iff some analyte's status is
\* 'escalation'; safe_count and escalation_count count the analytes of each
\* status and add up to the number of analytes of the profile.
C3_OverallIsAnyEscalation ==
    call = "analyze_combination" =>
        LET esc == {i \in Items : EntryOf(i).status = "escalation"}
            safe == {i \in Items : EntryOf(i).status = "safe"}
        IN  /\ result.overall_status = IF esc # {} THEN "escalation" ELSE "safe"
            /\ result.escalation_count = Cardinality(esc)
            /\ result.safe_count = Cardinality(safe)
            /\ result.safe_count + result.escalation_count = Len(Levels)

\* one analyte of eight in escalation, seven safe: the overall status is
\* 'escalation'
C3_Witness ==
    /\ call = "analyze_combination"
    /\ args.escalation_levels = ALKALINE_ESCALATION_LEVELS
    /\ args.water_sources = << <<"CRUDE SEWAGE", L(10)>> >>
    /\ result.escalation_count = 1
    /\ result.safe_count = 7
    /\ result.analyte_results["Ammonium"].status = "escalation"
    /\ result.overall_status = "escalation"

\* threshold / final concentration of item i
MarginOf(i) == FDiv(LimitOf(i), FinalOf(i))

\* C4: safety_score is min(100, the least threshold / final_concentration
\* over the analytes with final concentration > 0); with no such analyte the
\* score is 100 and worst_analyte is None; otherwise worst_analyte is the
\* first analyte, in profile order, that has the least ratio.
C4_SafetyScoreAndWorstAnalyte ==
    call = "analyze_combination" =>
        \A pos \in {{i \in Items : FGt(FinalOf(i), FZERO)}} :
            \A margin \in {<<>> \o [i \in Items |->
                                      IF i \in pos THEN MarginOf(i) ELSE FINF]} :
                IF pos = {}
                THEN result.safety_score = FInt(100) /\ result.worst_analyte = NoAnalyte
                ELSE \E k \in pos :
                        /\ \A j \in pos : FLeq(margin[k], margin[j])
                        /\ \A j \in pos : j < k => FLt(margin[k], margin[j])
                        /\ result.worst_analyte = AnalyteOf(k)
                        /\ result.safety_score =
                               IF FLt(FInt(100), margin[k]) THEN FInt(100) ELSE margin[k]

\* final concentration / threshold of item i
ExcessOf(i) == FDiv(FinalOf(i), LimitOf(i))

\* C5: required_dilution is the greatest final_concentration / threshold over
\* the analytes whose final concentration exceeds their threshold, and 1.0
\* when there is none; dilution_limiting_analyte is the first analyte, in
\* profile order, with that greatest value, and None when required_dilution
\* is 1.0.
C5_RequiredDilution ==
    call = "analyze_combination" =>
        \A over \in {{i \in Items : FGt(FinalOf(i), LimitOf(i))}} :
            \A excess \in {<<>> \o [i \in Items |->
                                      IF i \in over THEN ExcessOf(i) ELSE FZERO]} :
                /\ IF over = {}
                   THEN result.required_dilution = FONE
                   ELSE \E k \in over :
                           /\ \A j \in over : FGeq(excess[k], excess[j])
                           /\ \A j \in over : j < k => FGt(excess[k], excess[j])
                           /\ result.required_dilution = excess[k]
                           /\ result.dilution_limiting_analyte = AnalyteOf(k)
                /\ result.required_dilution = FONE
                       => result.dilution_limiting_analyte = NoAnalyte

\* MINEWATER under OverProfile: Cyanide 0.005 * 0.7 / 0.002 and Sulphide
\* 0.01 * 0.7 / 0.004 tie at 1.7499999999999998, and Cyanide, first in the
\* profile, is limiting
C5_Witness ==
    /\ call = "analyze_combination"
    /\ args.escalation_levels = OverProfile
    /\ args.water_sources = << <<"MINEWATER", L(10)>> >>
    /\ ExcessOf(1) = ExcessOf(2)
    /\ result.required_dilution = <<1, <<32767, 32767, 32767, 223>>, -52>>
    /\ result.dilution_limiting_analyte = "Cyanide"

\* the place that a stable sort by (status rank, -score) gives item i of
\* items: behind every item with a smaller key, and behind the items before
\* it with an equal key
SortedPlace(items, i) ==
    LET rank(x) == IF x.overall_status = "safe" THEN 0 ELSE 1
        before(j) ==
            \/ rank(items[j]) < rank(items[i])
            \/ /\ rank(items[j]) = rank(items[i])
               /\ \/ FGt(items[j].safety_score, items[i].safety_score)
                  \/ items[j].safety_score = items[i].safety_score /\ j < i
    IN  1 + Cardinality({j \in 1..Len(items) : before(j)})

\* out holds the items in the order of a stable sort by (status rank, -score):
\* safe before escalation, scores non-increasing within a status, ties in the
\* order of items
StablySorted(items, out) ==
    /\ Len(out) = Len(items)
    /\ \A i \in 1..Len(items) : out[SortedPlace(items, i)] = items[i]
    /\ \A p, q \in 1..Len(out) :
        p < q =>
            /\ ~(out[p].overall_status = "escalation" /\ out[q].overall_status = "safe")
            /\ out[p].overall_status = out[q].overall_status
                   => FGeq(out[p].safety_score, out[q].safety_score)

Ranked == args.ranked_sources
Available(i) == Ranked[i].available_volume

\* the total available volume, as the page adds it up (a sum of floats)
TotalAvailable == SumTo([i \in 1..Len(Ranked) |-> Available(i)], Len(Ranked))

\* <<the volume taken from source i, the volume still needed after it>> for
\* i = 1..Len(Ranked), each source giving min(available volume, volume still
\* needed before it); item 0 is <<0, the volume asked>>
GreedyPass ==
    LET pass[i \in 0..Len(Ranked)] ==
            IF i = 0 THEN <<FZERO, args.required_volume>>
            ELSE Only({ <<take, FSub(before, take)>> :
                        before \in {pass[i - 1][2]},
                        take \in {FMin(Available(i), pass[i - 1][2])} })
    IN  pass

\* the sources of Ranked that have volume(i) > 0, in order, with that volume
Positive(volume) ==
    LET sel[i \in 0..Len(Ranked)] ==
            IF i = 0 THEN <<>>
            ELSE IF FGt(volume[i], FZERO)
                 THEN Append(sel[i - 1], <<Ranked[i].type, volume[i]>>)
                 ELSE sel[i - 1]
    IN  sel[Len(Ranked)]

\* C7: build_blend_from_ranking takes from each source, in ranked order,
\* min(available volume, volume still needed before it); selected lists in
\* that order the sources a positive volume was taken from, with that volume;
\* the shortfall is the volume still needed after the last source, and is 0
\* when the total available volume is at least the required volume.
C7_GreedyFill ==
    call = "build_blend_from_ranking" =>
        \A pass \in {<<>> \o [i \in 1..Len(Ranked) |-> GreedyPass[i]]} :
            /\ result[1] = Positive([i \in 1..Len(Ranked) |-> pass[i][1]])
            /\ result[2] = IF Len(Ranked) = 0 THEN args.required_volume
                           ELSE pass[Len(Ranked)][2]
            /\ FGeq(TotalAvailable, args.required_volume) => result[2] = FZERO

\* |x|
FAbs(x) == IF IsNan(x) THEN x ELSE <<1, x[2], x[3]>>

\* the rounding error granted to a sum or difference of volumes, as a
\* fraction of the volume asked
ROUNDING == FDec(1, 1000000000)

\* x and y differ by no more than the rounding error granted
Near(x, y) == FLeq(FAbs(FSub(x, y)), FMul(ROUNDING, args.required_volume))

\* C8 as stated: when the total available volume is less than the required
\* volume, the shortfall is required - total > 0 and selected holds every
\* source of positive available volume with all of that volume.
C8_ExhaustionShortfall ==
    (call = "build_blend_from_ranking" /\ FLt(TotalAvailable, args.required_volume)) =>
        /\ result[2] = FSub(args.required_volume, TotalAvailable)
        /\ FGt(result[2], FZERO)
        /\ result[1] = Positive([i \in 1..Len(Ranked) |-> Available(i)])

\* C8, amended: when the total available volume is less than the required
\* volume by more than rounding error, the shortfall is > 0 and is
\* required - total up to rounding error, and selected holds every source of
\* positive available volume with all of that volume.
C8_ExhaustionShortfallRounded ==
    (/\ call = "build_blend_from_ranking"
     /\ FGt(FSub(args.required_volume, TotalAvailable),
            FMul(ROUNDING, args.required_volume))) =>
        /\ Near(result[2], FSub(args.required_volume, TotalAvailable))
        /\ FGt(result[2], FZERO)
        /\ result[1] = Positive([i \in 1..Len(Ranked) |-> Available(i)])

\* 1.6 L asked of 0.6 L, 0.3 L and an empty source: both are taken whole, the
\* empty source is not listed and 0.7 L is missing, where 1.6 - (0.6 + 0.3)
\* is 0.7000000000000002 in floats
C8_Witness ==
    /\ call = "build_blend_from_ranking"
    /\ args.required_volume = L(16)
    /\ [i \in 1..Len(Ranked) |-> <<Ranked[i].type, Available(i)>>]
         = << <<"DISTILLED WATER", L(6)>>, <<"MINEWATER", L(3)>>, <<"CRUDE SEWAGE", L(0)>> >>
    /\ result = << << <<"DISTILLED WATER", L(6)>>, <<"MINEWATER", L(3)>> >>, L(7) >>
    /\ result[2] # FSub(args.required_volume, TotalAvailable)

\* the members of a set of positions, in increasing order
RECURSIVE Ascending(_)
Ascending(S) ==
    IF S = {} THEN <<>>
    ELSE LET least == CHOOSE x \in S : \A y \in S : x <= y
         IN  <<least>> \o Ascending(S \ {least})

\* the number of subsets of size r of a set of size n
RECURSIVE Binomial(_, _)
Binomial(n, r) ==
    IF r = 0 THEN 1
    ELSE IF n = 0 THEN 0
    ELSE Binomial(n - 1, r - 1) + Binomial(n - 1, r)

\* C(n, 1) + ... + C(n, m)
RECURSIVE SubsetsUpTo(_, _)
SubsetsUpTo(n, m) == IF m <= 0 THEN 0 ELSE Binomial(n, m) + SubsetsUpTo(n, m - 1)

\* C9: get_all_combinations returns one combination for every set of entry
\* positions of size 1..min(n, max_size) and nothing else: the (type, volume)
\* pairs of the positions in input order; none is empty, there are
\* C(n,1) + ... + C(n,min(n, max_size)) of them, and with distinct entries no
\* two are equal.
C9_CombinationsAreTheSubsets ==
    call = "get_all_combinations" =>
        LET entries == args.water_entries
            n == Len(entries)
            m == IF args.max_size < n THEN args.max_size ELSE n
            pairs(S) == LET at == Ascending(S)
                        IN  [j \in 1..Len(at) |-> <<entries[at[j]].type, entries[at[j]].volume>>]
        IN  \A subsets \in {{pairs(S) : S \in {T \in SUBSET (1..n) : Cardinality(T) \in 1..m}}} :
            /\ \A k \in 1..Len(result) : result[k] \in subsets /\ Len(result[k]) >= 1
            /\ \A c \in subsets :
                Cardinality({k \in 1..Len(result) : result[k] = c})
                    = Cardinality({S \in SUBSET (1..n) :
                                      Cardinality(S) \in 1..m /\ pairs(S) = c})
            /\ Len(result) = SubsetsUpTo(n, m)
            /\ (\A i, j \in 1..n : i # j => entries[i] # entries[j])
                   => \A k, l \in 1..Len(result) : k # l => result[k] # result[l]

\* five entries and max_size 3: 5 + 10 + 10 = 25 combinations, the last one
\* being the entries at positions 3, 4, 5
C9_Witness ==
    /\ call = "get_all_combinations"
    /\ Len(args.water_entries) = 5
    /\ args.max_size = 3
    /\ Len(result) = 25
    /\ result[25] = [j \in 1..3 |-> <<args.water_entries[j + 2].type,
                                      args.water_entries[j + 2].volume>>]

SameItems(items, out) ==
    /\ Len(out) = Len(items)
    /\ \A x \in {items[i] : i \in 1..Len(items)} \cup {out[i] : i \in 1..Len(out)} :
        Cardinality({i \in 1..Len(items) : items[i] = x})
            = Cardinality({i \in 1..Len(out) : out[i] = x})

C11_SludgeBreakdownAndTotal ==
    call = "calculate_sludge_kg" =>
        LET sources == args.water_sources
            breakdown == result[2]
            known(i) == sources[i][1] \in DOMAIN SLUDGE_PRODUCTION_KG_PER_M3
            mass(i) == FMul(FDiv(sources[i][2], FInt(1000)),
                            SLUDGE_PRODUCTION_KG_PER_M3[sources[i][1]])
            sum[i \in 0..Len(sources)] ==
                IF i = 0 THEN FZERO
                ELSE IF known(i) THEN FAdd(sum[i - 1], mass(i)) ELSE sum[i - 1]
        IN  /\ Len(breakdown) = Len(sources)
            /\ \A i \in 1..Len(sources) :
                /\ breakdown[i].water_type = sources[i][1]
                /\ breakdown[i].volume_l = sources[i][2]
                /\ known(i) =>
                    /\ breakdown[i].rate_kg_m3 = SLUDGE_PRODUCTION_KG_PER_M3[sources[i][1]]
                    /\ breakdown[i].sludge_kg = mass(i)
                /\ ~known(i) =>
                    /\ breakdown[i].rate_kg_m3 = None
                    /\ breakdown[i].sludge_kg = None
            /\ result[1] = sum[Len(sources)]

\* 1000 L at 0.26 kg/m3 and 500 L without a rate: the total is 0.26 kg and
\* the second item is there with rate and mass None
C11_Witness ==
    /\ call = "calculate_sludge_kg"
    /\ args.water_sources = << <<"FINAL SEWAGE EFFLUENT", L(10000)>>, <<"UNLISTED WATER", L(5000)>> >>
    /\ result[1] = FDec(26, 100)
    /\ Len(result[2]) = 2
    /\ result[2][1].sludge_kg = FDec(26, 100)
    /\ result[2][2].rate_kg_m3 = None
    /\ result[2][2].sludge_kg = None

\* the valid entries of the click, their ranking and the greedy fill of the
\* required water volume from it
ClickValid == SelectSeq(args.water_entries, ValidEntry)
ClickFill ==
    build_blend_from_ranking(rank_water_sources(ClickValid, args.escalation_levels),
                             water_required(args.h2_target))

\* C12: on "Find Optimal Blend" with at least one valid entry a result is
\* stored; when the greedy fill leaves a shortfall above the tolerance of 1e-6
\* its list of results is empty, and it holds a result only when the shortfall
\* is within the tolerance: then exactly one, the analysis of the selected
\* (type, volume) list.
C12_ShortfallGivesEmptyResults ==
    (call = "find_optimal_blend" /\ Len(ClickValid) > 0) =>
        \A fill \in {ClickFill} :
            /\ Len(result.analysis_results) = 1
            /\ \A results \in {result.analysis_results[1].results} :
                /\ FGt(fill[2], FDec(1, 1000000)) => results = <<>>
                /\ results # <<>> =>
                    /\ FLeq(fill[2], FDec(1, 1000000))
                    /\ Len(results) = 1
                    /\ results[1].water_sources = fill[1]
                    /\ results[1] = [water_sources |-> fill[1]]
                           @@ analyze_combination(fill[1], args.escalation_levels)
                /\ FLeq(fill[2], FDec(1, 1000000)) => results # <<>>

\* 26.5 L asked of 5.0 L of distilled water, an entry of volume 0 and an
\* entry without a type: 21.5 L are missing and the stored list is empty
C12_Witness ==
    /\ call = "find_optimal_blend"
    /\ args.h2_target = FInt(3)
    /\ args.water_entries = << [type |-> "DISTILLED WATER", volume |-> L(50)],
                               [type |-> "MINEWATER", volume |-> L(0)],
                               [type |-> NoType, volume |-> L(50)] >>
    /\ ClickFill = << << <<"DISTILLED WATER", L(50)>> >>, L(215) >>
    /\ Len(result.analysis_results) = 1
    /\ result.analysis_results[1].results = <<>>
    /\ result.analysis_results[1].total_available = L(50)
    /\ result.analysis_results[1].water_required = L(265)
    /\ result.display.banner = "Insufficient Water Available"

\* the volumes tried for each entry in place of the greedy ones, in litres
OtherVolumes == {L(0), L(100), L(165), L(265)}

\* the other recipes of the click: a volume of OtherVolumes for each valid
\* entry, no more than the entry has, the required volume in all
OtherRecipes ==
    {[i \in 1..Len(ClickValid) |-> <<ClickValid[i].type, volumes[i]>>] :
        volumes \in {v \in [1..Len(ClickValid) -> OtherVolumes] :
            /\ \A i \in 1..Len(ClickValid) : FLeq(v[i], ClickValid[i].volume)
            /\ SumTo(v, Len(ClickValid)) = water_required(args.h2_target)}}

\* a ranks strictly before b: safe before escalation, then the higher score
RanksBefore(a, b) ==
    \/ a.overall_status = "safe" /\ b.overall_status = "escalation"
    \/ a.overall_status = b.overall_status /\ FGt(a.safety_score, b.safety_score)

\* C13: when the greedy fill meets the required volume, no other assignment
\* of volumes to the valid entries (within what each has, the required volume
\* in all) ranks strictly before the recipe shown as the safest; if one of
\* them is safe, the recipe shown is safe.
C13_GreedyRecipeIsSafest ==
    (call = "find_optimal_blend" /\ result.analysis_results # <<>>) =>
        \A shown \in {result.analysis_results[1].results} :
            shown # <<>> =>
                \A other \in OtherRecipes :
                    \A analysis \in {analyze_combination(other, args.escalation_levels)} :
                        ~RanksBefore(analysis, shown[1])

\* C14: for every combination whose required_dilution d is greater than 1,
\* every analyte's final concentration divided by d has status safe under
\* the rule of get_status (stated for the three profiles of the pH selector).
C14_RequiredDilutionMakesSafe ==
    (/\ call = "analyze_combination"
     /\ args.escalation_levels \in PageProfiles
     /\ FGt(result.required_dilution, FONE)) =>
        \A i \in 1..Len(args.escalation_levels) :
            get_status(FDiv(FinalOf(i), result.required_dilution), LimitOf(i)) = "safe"

\* the volumes of distilled water added to a combination, in litres
DiluentVolumes == {L(0), L(50), HUGE}

\* the combination with source x put after its first k sources
WithSourceAt(water_sources, k, x) ==
    SubSeq(water_sources, 1, k) \o <<x>> \o SubSeq(water_sources, k + 1, Len(water_sources))

\* C15: adding distilled water (concentration 0 for every analyte) of any
\* volume >= 0 anywhere in a combination, the other volumes unchanged, never
\* increases calculate_blend_concentration: the new value is never greater
\* than the old one.
C15_DiluentNeverIncreasesBlend ==
    call = "calculate_blend_concentration" =>
        /\ \A analyte \in InputAnalytes \cup ExtremeAnalytes :
               Concentration("DISTILLED WATER", analyte) = FZERO
        /\ \A volume \in DiluentVolumes, k \in 0..Len(args.water_sources) :
            \A diluted \in {WithSourceAt(args.water_sources, k, <<"DISTILLED WATER", volume>>)} :
                ~FGt(calculate_blend_concentration(diluted, args.analyte), result)

\* CRUDE SEWAGE alone has 180 mg/L of Chloride; with 5.0 L of distilled water
\* added to its 1.0 L it has 30 mg/L, and with 0 L added still 180 mg/L
C15_Witness ==
    /\ call = "calculate_blend_concentration"
    /\ args.analyte = "Chloride"
    /\ args.water_sources = << <<"CRUDE SEWAGE", L(10)>> >>
    /\ result = FInt(180)
    /\ calculate_blend_concentration(
           WithSourceAt(args.water_sources, 1, <<"DISTILLED WATER", L(50)>>), "Chloride")
         = FInt(30)
    /\ calculate_blend_concentration(
           WithSourceAt(args.water_sources, 0, <<"DISTILLED WATER", L(0)>>), "Chloride")
         = result

\* C16: with the shipped tables, analyze_combination of 50 L of CRUDE SEWAGE
\* and 50 L of RAIN WATER under the alkaline profile gives Ammonium a blend
\* concentration of (28 * 50 + 0.41 * 50) / 100 = 14.205 and a final one of
\* 9.9435, below the threshold 10.0, so its status is safe; each of the 8
\* analytes is computed the same way and the overall status is escalation
\* exactly when one of them is.
C16_CrudeSewageWithRainWater ==
    (/\ call = "analyze_combination"
     /\ args.water_sources = << <<"CRUDE SEWAGE", FInt(50)>>, <<"RAIN WATER", FInt(50)>> >>
     /\ args.escalation_levels = ALKALINE_ESCALATION_LEVELS) =>
        \A computed \in {<<>> \o [i \in Items |->
                Only({ <<blend, FMul(blend, FDec(7, 10))>> :
                       blend \in {FDiv(FAdd(FMul(WATER_TYPE_CONCENTRATIONS["CRUDE SEWAGE"][AnalyteOf(i)],
                                                 FInt(50)),
                                            FMul(WATER_TYPE_CONCENTRATIONS["RAIN WATER"][AnalyteOf(i)],
                                                 FInt(50))),
                                       FInt(100))} })]} :
            LET status(i) == IF FLt(computed[i][2], LimitOf(i)) THEN "safe" ELSE "escalation"
            IN  /\ Len(Levels) = 8
                /\ \A i \in Items :
                    /\ EntryOf(i).blend_concentration = computed[i][1]
                    /\ EntryOf(i).final_concentration = computed[i][2]
                    /\ EntryOf(i).status = status(i)
                /\ result.analyte_results["Ammonium"].blend_concentration = FDec(14205, 1000)
                /\ result.analyte_results["Ammonium"].final_concentration = FDec(99435, 10000)
                /\ result.analyte_results["Ammonium"].escalation_level = FInt(10)
                /\ result.analyte_results["Ammonium"].status = "safe"
                /\ result.overall_status = "escalation"
                       <=> \E i \in Items : status(i) = "escalation"

\* that call, with all 8 analytes safe and the blend safe
C16_Witness ==
    /\ call = "analyze_combination"
    /\ args.water_sources = << <<"CRUDE SEWAGE", FInt(50)>>, <<"RAIN WATER", FInt(50)>> >>
    /\ args.escalation_levels = ALKALINE_ESCALATION_LEVELS
    /\ result.analyte_results["Ammonium"].final_concentration = FDec(99435, 10000)
    /\ result.safe_count = 8
    /\ result.overall_status = "safe"
    /\ result.worst_analyte = "Ammonium"

\* what C17 says of the selected sources: distinct sources of the ranked
\* list, in its order, each with a volume > 0 and at most what it has, and
\* all but the last with all it has
SelectedInOrder ==
    LET selected == result[1]
        m == Len(selected)
    IN  \E source \in [1..m -> 1..Len(Ranked)] :
            \A k \in 1..m :
                /\ \A l \in 1..m : k < l => source[k] < source[l]
                /\ selected[k][1] = Ranked[source[k]].type
                /\ FGt(selected[k][2], FZERO)
                /\ FLeq(selected[k][2], Available(source[k]))
                /\ k < m => selected[k][2] = Available(source[k])

\* the selected volumes and the shortfall, added up
SelectedAndShortfall ==
    FAdd(SumTo([k \in 1..Len(result[1]) |-> result[1][k][2]], Len(result[1])), result[2])

\* C17 as stated: after build_blend_from_ranking the selected volumes and the
\* shortfall add up to the required volume and the shortfall is >= 0; the
\* selected sources are distinct sources of the ranked list, in its order,
\* each with a volume > 0 and at most what it has, and all but the last with
\* all it has.
C17_VolumeConservation ==
    call = "build_blend_from_ranking" =>
        /\ SelectedAndShortfall = args.required_volume
        /\ FGeq(result[2], FZERO)
        /\ SelectedInOrder

\* C17, amended: the selected volumes and the shortfall add up to the
\* required volume up to rounding error, for a required volume of at most
\* 2^1023 L (above it the sum of floats can overflow), and the shortfall is
\* >= 0; the selected sources are distinct sources of the ranked list, in its
\* order, each with a volume > 0 and at most what it has, and all but the
\* last with all it has.
C17_VolumeConservationRounded ==
    call = "build_blend_from_ranking" =>
        /\ FLeq(args.required_volume, FPow2(1023))
               => Near(SelectedAndShortfall, args.required_volume)
        /\ FGeq(result[2], FZERO)
        /\ SelectedInOrder

\* 1.6 L asked of 0.6 L, 0.3 L and 1.0 L: the first two are taken whole and
\* the third gives the 0.7 L still needed; the volumes add up to
\* 1.5999999999999999 L
C17_Witness ==
    /\ call = "build_blend_from_ranking"
    /\ args.required_volume = L(16)
    /\ [i \in 1..Len(Ranked) |-> <<Ranked[i].type, Available(i)>>]
         = << <<"DISTILLED WATER", L(6)>>, <<"MINEWATER", L(3)>>, <<"CRUDE SEWAGE", L(10)>> >>
    /\ result = << << <<"DISTILLED WATER", L(6)>>, <<"MINEWATER", L(3)>>,
                      <<"CRUDE SEWAGE", L(7)>> >>, FZERO >>
    /\ SelectedAndShortfall # args.required_volume

\* the valid entries of the click that are safe alone under its profile
SafeAlone(type) ==
    analyze_combination(<< <<type, FONE>> >>, args.escalation_levels).overall_status
        = "safe"
SafeVolume ==
    SumTo([i \in 1..Len(ClickValid) |->
              IF SafeAlone(ClickValid[i].type) THEN ClickValid[i].volume ELSE FZERO],
          Len(ClickValid))

\* C18: when the sources that are safe alone have at least the required
\* volume between them, the recipe of rank_water_sources followed by
\* build_blend_from_ranking has no shortfall, holds only sources that are
\* safe alone, and its analysis has overall status safe.
C18_EnoughSafeWaterGivesSafeRecipe ==
    (/\ call = "find_optimal_blend"
     /\ Len(ClickValid) > 0
     /\ FGeq(SafeVolume, water_required(args.h2_target))) =>
        \A results \in {result.analysis_results[1].results} :
            /\ ClickFill[2] = FZERO
            /\ Len(results) = 1
            /\ \A k \in 1..Len(results[1].water_sources) :
                SafeAlone(results[1].water_sources[k][1])
            /\ results[1].overall_status = "safe"
            /\ result.display.banner = "Safe Blend Found"

\* overall_status is escalation exactly when safety_score <= 1, and safe
\* exactly when safety_score > 1
StatusAgreesWithScore(r) ==
    /\ r.overall_status \in {"safe", "escalation"}
    /\ r.overall_status = "escalation" <=> FLeq(r.safety_score, FONE)
    /\ r.overall_status = "safe" <=> FGt(r.safety_score, FONE)

\* results that analyze_combination returned carry its analyte_results
AreAnalyses(results) ==
    \A k \in 1..Len(results) : "analyte_results" \in DOMAIN results[k]

\* C19: under a profile of positive thresholds analyze_combination returns
\* overall_status escalation exactly when safety_score <= 1 and safe exactly
\* when safety_score > 1; so among the results of analyze_combination given
\* to sort_results no escalation result has a score above a safe result's.
C19_StatusAgreesWithScore ==
    /\ call = "analyze_combination" =>
        /\ \A i \in Items : FGt(Levels[i][2], FZERO)
        /\ StatusAgreesWithScore(result)
    /\ (call = "sort_results" /\ AreAnalyses(args.results)) =>
        /\ \A k \in 1..Len(result) : StatusAgreesWithScore(result[k])
        /\ \A k, l \in 1..Len(result) :
            (result[k].overall_status = "escalation" /\ result[l].overall_status = "safe")
                => FLt(result[k].safety_score, result[l].safety_score)

\* 12.0 L of DISTILLED WATER with 12.5 L of CRUDE SEWAGE under the alkaline
\* profile: Ammonium is exactly at its threshold, the score is exactly 1 and
\* the status is escalation
C19_Witness ==
    /\ call = "analyze_combination"
    /\ args.escalation_levels = ALKALINE_ESCALATION_LEVELS
    /\ args.water_sources = << <<"DISTILLED WATER", L(120)>>, <<"CRUDE SEWAGE", L(125)>> >>
    /\ result.analyte_results["Ammonium"].final_concentration = FInt(10)
    /\ result.safety_score = FONE
    /\ result.overall_status = "escalation"

\* C20: analyze_combination's overall_status is escalation exactly when
\* required_dilution > 1 and dilution_limiting_analyte names an analyte whose
\* status is escalation; required_dilution is 1 exactly when overall_status
\* is safe (stated for the three profiles of the pH selector).
C20_StatusAgreesWithDilution ==
    (call = "analyze_combination" /\ args.escalation_levels \in PageProfiles) =>
        /\ result.overall_status = "escalation" <=>
            /\ FGt(result.required_dilution, FONE)
            /\ \E i \in Items :
                /\ AnalyteOf(i) = result.dilution_limiting_analyte
                /\ EntryOf(i).status = "escalation"
        /\ result.required_dilution = FONE <=> result.overall_status = "safe"

====
